---- MODULE Spec2Model ----
(***************************************************************************)
(* A model of the tchisla-solver search core: the expression smart         *)
(* constructors, the per-domain Solver (table, by-depth lists, resumable   *)
(* level search, insertion gate) and the drivers built on it.              *)
(*                                                                         *)
(* Values.  An i64 value is an integer.  A Rational value is a pair        *)
(* <<numerator, denominator>> in lowest terms.  Option<T> is <<>> for None *)
(* and <<v>> for Some(v).  Vec<T> is a sequence; the Rust index k is the   *)
(* TLA+ index k + 1.                                                       *)
(*                                                                         *)
(* Floating point.  The code compares base-2 logarithms computed in f64    *)
(* (log2(x) * e > max_digits).  The model compares the exact integers      *)
(* (x^e > 2^max_digits); the two agree whenever the f64 logarithm is not   *)
(* within rounding distance of the limit, which for integer operands       *)
(* happens only at exact powers of two, where log2 is exact.               *)
(***************************************************************************)
EXTENDS Integers, Sequences, FiniteSets, TLC

\* ------------------------------------------------------------------------
\* Bounds of the model.
\* ------------------------------------------------------------------------

\* Limits.max_digits of the modelled solvers (the built-in limits are 48, 32
\* and 20; the model scales them down).
MaxDigits == 5

\* Limits.max_factorial of the modelled solvers.
MaxFactorial == 5

\* The largest max_depth a caller passes to solve.
MaxDepth == 4

\* The source digits n the model draws from are 1..MaxN.
MaxN == 3

\* The width of the model's machine integer, the scaled-down i64.
WordBits == 8

\* ------------------------------------------------------------------------
\* Option<T>
\* ------------------------------------------------------------------------

None == <<>>

Some(v) == <<v>>

IsSome(o) == o # <<>>

Unwrap(o) == o[1]

\* ------------------------------------------------------------------------
\* Expression (expression.rs)
\* ------------------------------------------------------------------------

Number(x) == <<"Number", x>>

Negate(x) == <<"Negate", x>>

Add(x, y) == <<"Add", x, y>>

Subtract(x, y) == <<"Subtract", x, y>>

Multiply(x, y) == <<"Multiply", x, y>>

Divide(x, y) == <<"Divide", x, y>>

Power(x, y) == <<"Power", x, y>>

Sqrt(x, order) == <<"Sqrt", x, order>>

Factorial(x) == <<"Factorial", x>>

is_number(e) == e[1] = "Number"

is_subtract(e) == e[1] = "Subtract"

is_add(e) == e[1] = "Add"

is_multiply(e) == e[1] = "Multiply"

is_divide(e) == e[1] = "Divide"

is_power(e) == e[1] = "Power"

is_sqrt(e) == e[1] = "Sqrt"

from_number(x) == Number(x)

from_negate(x) ==
    IF is_subtract(x) THEN Subtract(x[3], x[2]) ELSE Negate(x)

RECURSIVE from_add(_, _)
from_add(x, y) ==
    IF is_subtract(x) /\ is_subtract(y)
    THEN Subtract(Add(x[2], y[2]), Add(x[3], y[3]))
    ELSE IF is_subtract(x)
    THEN Subtract(Add(x[2], y), x[3])
    ELSE IF is_subtract(y)
    THEN Subtract(Add(x, y[2]), y[3])
    ELSE IF is_add(y)
    THEN Add(from_add(x, y[2]), y[3])
    ELSE Add(x, y)

from_subtract(x, y) ==
    IF is_subtract(y)
    THEN from_add(x, Subtract(y[3], y[2]))
    ELSE IF is_subtract(x)
    THEN Subtract(x[2], Add(x[3], y))
    ELSE Subtract(x, y)

RECURSIVE from_multiply(_, _)
from_multiply(x, y) ==
    IF is_divide(x) /\ is_divide(y)
    THEN Divide(Multiply(x[2], y[2]), Multiply(x[3], y[3]))
    ELSE IF is_divide(x)
    THEN Divide(Multiply(x[2], y), x[3])
    ELSE IF is_divide(y)
    THEN Divide(Multiply(x, y[2]), y[3])
    ELSE IF is_multiply(y)
    THEN Multiply(from_multiply(x, y[2]), y[3])
    ELSE Multiply(x, y)

from_divide(x, y) ==
    IF is_divide(y)
    THEN from_multiply(x, Divide(y[3], y[2]))
    ELSE IF is_divide(x)
    THEN Divide(x[2], Multiply(x[3], y))
    ELSE Divide(x, y)

RECURSIVE from_power(_, _)
from_power(x, y) ==
    IF is_power(x)
    THEN Power(x[2], from_multiply(x[3], y))
    ELSE IF is_sqrt(x)
    THEN Sqrt(from_power(x[2], y), x[3])
    ELSE Power(x, y)

RECURSIVE from_sqrt(_, _)
from_sqrt(x, order) ==
    IF order = 0
    THEN x
    ELSE IF is_sqrt(x)
    THEN Sqrt(x[2], x[3] + order)
    ELSE IF is_multiply(x)
    THEN from_multiply(from_sqrt(x[2], order), from_sqrt(x[3], order))
    ELSE IF is_divide(x)
    THEN from_divide(from_sqrt(x[2], order), from_sqrt(x[3], order))
    ELSE Sqrt(x, order)

from_factorial(x) == Factorial(x)

\* is_single_digit (solver/unary_operation.rs): a one-digit numeral under any
\* stack of negate, sqrt and factorial.
RECURSIVE is_single_digit(_)
is_single_digit(e) ==
    IF e[1] = "Number"
    THEN e[2] < 10
    ELSE IF e[1] \in {"Negate", "Sqrt", "Factorial"}
    THEN is_single_digit(e[2])
    ELSE FALSE

\* ------------------------------------------------------------------------
\* Number theory helpers (number_theory.rs)
\* ------------------------------------------------------------------------

IPow(x, e) == x ^ e

\* x^e > limit for x >= 1, decided without forming x^e.  This is the exact
\* form of the f64 test  log2(x) * e > log2(limit).
\* limit divided (rounding down) by x^e for x >= 1
RECURSIVE DivPow(_, _, _)
DivPow(limit, x, e) ==
    CASE limit = 0 \/ e = 0 \/ x = 1 -> limit
      [] e = 1 -> limit \div x
      [] OTHER -> DivPow(DivPow(limit, x, e \div 2), x, e - e \div 2)

PowExceeds(x, e, limit) == DivPow(limit, x, e) = 0

\* ((n as f64).sqrt() + 0.5) as i64: the integer nearest to the square root.
\* The least m in lo..hi with n <= m * m + m.
RECURSIVE RoundSqrtIn(_, _, _)
RoundSqrtIn(n, lo, hi) ==
    IF lo = hi
    THEN lo
    ELSE IF n <= ((lo + hi) \div 2) * ((lo + hi) \div 2) + (lo + hi) \div 2
    THEN RoundSqrtIn(n, lo, (lo + hi) \div 2)
    ELSE RoundSqrtIn(n, (lo + hi) \div 2 + 1, hi)

\* (46340 is the root of the largest square below 2^31.)
RoundSqrt(n) == RoundSqrtIn(n, 0, IF n < 46340 THEN n ELSE 46340)

try_sqrt(n) ==
    IF n = 0 \/ n = 1
    THEN Some(n)
    ELSE IF n < 0
    THEN None
    ELSE LET m == RoundSqrt(n)
         IN  IF m * m = n THEN Some(m) ELSE None

RECURSIVE factorial(_)
factorial(n) == IF n < 2 THEN 1 ELSE n * factorial(n - 1)

RECURSIVE factorial_divide(_, _)
factorial_divide(m, n) == IF m <= n THEN 1 ELSE m * factorial_divide(m - 1, n)

\* ------------------------------------------------------------------------
\* Ratio<i64> (the num crate's rational, as the Rational solver uses it):
\* always reduced, denominator positive.
\* ------------------------------------------------------------------------

Abs(x) == IF x < 0 THEN -x ELSE x

Min(a, b) == IF a < b THEN a ELSE b

Max(a, b) == IF a < b THEN b ELSE a

RECURSIVE Gcd(_, _)
Gcd(a, b) == IF b = 0 THEN a ELSE Gcd(b, a % b)

RatNew(p, q) ==
    LET g == Gcd(Abs(p), Abs(q))
    IN  IF q < 0 THEN << -(p \div g), -(q \div g) >> ELSE << p \div g, q \div g >>

RatFromInt(x) == <<x, 1>>

RatAdd(a, b) == RatNew(a[1] * b[2] + b[1] * a[2], a[2] * b[2])

RatSub(a, b) == RatNew(a[1] * b[2] - b[1] * a[2], a[2] * b[2])

RatMul(a, b) == RatNew(a[1] * b[1], a[2] * b[2])

RatDiv(a, b) == RatNew(a[1] * b[2], a[2] * b[1])

RatInv(a) == IF a[1] < 0 THEN << -a[2], -a[1] >> ELSE << a[2], a[1] >>

RatNeg(a) == << -a[1], a[2] >>

RatPow(a, e) == << IPow(a[1], e), IPow(a[2], e) >>

RatIsInteger(a) == a[2] = 1

RatIsOne(a) == a = <<1, 1>>

\* The machine word: WordBits bits in two's complement.  An overflowing +
\* or * panics in a build with overflow checks and wraps around in a build
\* without them.  The outcome of an operation is Ok(value) or Panic.
Builds == {"checked", "wrapping"}

Ok(v) == <<"Ok", v>>

Panic == <<"Panic">>

MinWord == -IPow(2, WordBits - 1)

MaxWord == IPow(2, WordBits - 1) - 1

\* x is a value of the machine word
Fits(x) == MinWord <= x /\ x <= MaxWord

\* x wrapped around into the machine word
wrapping(x) == ((x - MinWord) % IPow(2, WordBits)) + MinWord

\* Ratio<i64> arithmetic in the machine word, for a solver that runs in a
\* build: exact is the result in lowest terms.  A result whose numerator or
\* denominator is no value of the word cannot be computed without an
\* overflow: the build with overflow checks panics, the build without them
\* goes on with the wrapped numerator and denominator, which Ratio::new
\* reduces (and panics on a zero denominator).  A solver whose build is None
\* has limits that keep every result within the word.
Ratio_in_word(s, exact) ==
    IF s.build = None \/ (Fits(exact[1]) /\ Fits(exact[2]))
    THEN exact
    ELSE IF s.build = Some("checked") \/ wrapping(exact[2]) = 0
    THEN Panic
    ELSE RatNew(wrapping(exact[1]), wrapping(exact[2]))

\* ------------------------------------------------------------------------
\* RationalQuadratic (quadratic.rs): rational_part times the 2^quadratic_power
\* -th root of the product of PRIMES[i]^quadratic_part[i].
\* ------------------------------------------------------------------------

PRIMES == <<2, 3, 5, 7>>

Quadratic(rational_part, quadratic_part, quadratic_power) ==
    [rational_part |-> rational_part,
     quadratic_part |-> quadratic_part,
     quadratic_power |-> quadratic_power]

NoQuadraticPart == <<0, 0, 0, 0>>

\* The array [u8; 4] with the elements f[1] .. f[4].
Array4(f) == <<f[1], f[2], f[3], f[4]>>

Quadratic_from_int(x) == Quadratic(RatFromInt(x), NoQuadraticPart, 0)

Quadratic_from_rational(x) == Quadratic(x, NoQuadraticPart, 0)

Quadratic_to_int(x) ==
    IF x.quadratic_power = 0 /\ x.rational_part[2] = 1
    THEN Some(x.rational_part[1])
    ELSE None

Quadratic_is_rational(x) == x.quadratic_power = 0

Quadratic_negate(x) == [x EXCEPT !.rational_part = RatNeg(@)]

Quadratic_add(x, rhs) ==
    [x EXCEPT !.rational_part = RatAdd(@, rhs.rational_part)]

Quadratic_add_integer(x, rhs) ==
    [x EXCEPT !.rational_part = RatAdd(@, RatFromInt(rhs))]

Quadratic_subtract(x, rhs) ==
    [x EXCEPT !.rational_part = RatSub(@, rhs.rational_part)]

Quadratic_subtract_integer(x, rhs) ==
    [x EXCEPT !.rational_part = RatSub(@, RatFromInt(rhs))]

\* The value as it is before the halving loop.
Quadratic_unhalved(rational_part, quadratic_part, quadratic_power) ==
    Quadratic(rational_part, quadratic_part, quadratic_power)

\* while quadratic_power > 0 && all of quadratic_part are even: halve
RECURSIVE Quadratic_halve(_, _, _)
Quadratic_halve(rational_part, quadratic_part, quadratic_power) ==
    IF quadratic_power > 0 /\ \A i \in 1..4 : quadratic_part[i] % 2 = 0
    THEN Quadratic_halve(rational_part,
                         Array4([i \in 1..4 |-> quadratic_part[i] \div 2]),
                         quadratic_power - 1)
    ELSE Quadratic(rational_part, quadratic_part, quadratic_power)

\* The product of PRIMES[i]^e[i] over the positions from i on.
RECURSIVE PrimeProduct(_, _)
PrimeProduct(e, i) ==
    IF i > 4 THEN 1 ELSE IPow(PRIMES[i], e[i]) * PrimeProduct(e, i + 1)

Quadratic_multiply(x, rhs) ==
    LET rational_part == RatMul(x.rational_part, rhs.rational_part)
        quadratic_power == Max(x.quadratic_power, rhs.quadratic_power)
        full == IPow(2, quadratic_power)
        sum == Array4([i \in 1..4 |->
                   x.quadratic_part[i]
                       * IPow(2, quadratic_power - x.quadratic_power)
                   + rhs.quadratic_part[i]
                       * IPow(2, quadratic_power - rhs.quadratic_power)])
        carry == Array4([i \in 1..4 |-> IF sum[i] >= full THEN 1 ELSE 0])
    IN  IF rational_part[1] = 0
        THEN Quadratic(RatFromInt(0), NoQuadraticPart, 0)
        ELSE IF quadratic_power = 0
        THEN Quadratic(rational_part, NoQuadraticPart, 0)
        ELSE Quadratic_halve(
                 RatMul(rational_part, RatFromInt(PrimeProduct(carry, 1))),
                 Array4([i \in 1..4 |-> sum[i] % full]),
                 quadratic_power)

Quadratic_divide(x, rhs) ==
    LET rational_part == RatDiv(x.rational_part, rhs.rational_part)
        quadratic_power == Max(x.quadratic_power, rhs.quadratic_power)
        full == IPow(2, quadratic_power)
        a == Array4([i \in 1..4 |-> x.quadratic_part[i]
                                * IPow(2, quadratic_power - x.quadratic_power)])
        b == Array4([i \in 1..4 |-> rhs.quadratic_part[i]
                                * IPow(2, quadratic_power - rhs.quadratic_power)])
        borrow == Array4([i \in 1..4 |-> IF a[i] < b[i] THEN 1 ELSE 0])
    IN  IF rational_part[1] = 0
        THEN Quadratic(RatFromInt(0), NoQuadraticPart, 0)
        ELSE IF quadratic_power = 0
        THEN Quadratic(rational_part, NoQuadraticPart, 0)
        ELSE Quadratic_halve(
                 RatDiv(rational_part, RatFromInt(PrimeProduct(borrow, 1))),
                 Array4([i \in 1..4 |-> IF a[i] < b[i] THEN full + a[i] - b[i]
                                                ELSE a[i] - b[i]]),
                 quadratic_power)

Quadratic_inverse(x) ==
    LET present == Array4([i \in 1..4 |-> IF x.quadratic_part[i] > 0 THEN 1 ELSE 0])
    IN  Quadratic(
            RatDiv(RatInv(x.rational_part),
                   RatFromInt(PrimeProduct(present, 1))),
            Array4([i \in 1..4 |-> IF x.quadratic_part[i] > 0
                            THEN IPow(2, x.quadratic_power) - x.quadratic_part[i]
                            ELSE 0]),
            x.quadratic_power)

\* while quadratic_power > 0 && power % 2 == 0: <<quadratic_power, power>>
RECURSIVE Quadratic_power_halve(_, _)
Quadratic_power_halve(quadratic_power, power) ==
    IF quadratic_power > 0 /\ power % 2 = 0
    THEN Quadratic_power_halve(quadratic_power - 1, power \div 2)
    ELSE <<quadratic_power, power>>

Quadratic_power(x, power0) ==
    IF power0 = 0
    THEN Quadratic(RatFromInt(1), NoQuadraticPart, 0)
    ELSE LET h == Quadratic_power_halve(x.quadratic_power, power0)
             quadratic_power == h[1]
             power == h[2]
             whole == Array4([i \in 1..4 |-> (x.quadratic_part[i] * power)
                                          \div IPow(2, quadratic_power)])
         IN  Quadratic(
                 RatMul(RatPow(x.rational_part, power0),
                        RatFromInt(PrimeProduct(whole, 1))),
                 Array4([i \in 1..4 |-> (x.quadratic_part[i] * power)
                                     % IPow(2, quadratic_power)]),
                 quadratic_power)

\* How many times prime divides n (n > 0).
RECURSIVE Multiplicity(_, _)
Multiplicity(n, prime) ==
    IF n % prime = 0 THEN 1 + Multiplicity(n \div prime, prime) ELSE 0

\* x |= bit, for bit a power of two
BitOr(x, bit) == IF (x \div bit) % 2 = 1 THEN x ELSE x + bit

\* try_sqrt: each of PRIMES leaves the numerator p and the denominator q, its
\* pairs going to the rational part of the root and an odd one to the
\* quadratic part (an odd one of q also to the denominator); what is left of
\* p and q must be a square.
Quadratic_try_sqrt(x) ==
    IF x.rational_part[1] = 0
    THEN Some(x)
    ELSE IF x.rational_part[1] < 0
    THEN None
    ELSE LET quadratic_power == x.quadratic_power + 1
             bit == IPow(2, quadratic_power - 1)
             ep == Array4([i \in 1..4 |-> Multiplicity(x.rational_part[1], PRIMES[i])])
             eq == Array4([i \in 1..4 |-> Multiplicity(x.rational_part[2], PRIMES[i])])
             p == x.rational_part[1] \div PrimeProduct(ep, 1)
             q == x.rational_part[2] \div PrimeProduct(eq, 1)
             part1 == Array4([i \in 1..4 |->
                          IF ep[i] % 2 = 1 THEN BitOr(x.quadratic_part[i], bit)
                                           ELSE x.quadratic_part[i]])
             quadratic_part == Array4([i \in 1..4 |->
                          IF eq[i] % 2 = 1 THEN BitOr(part1[i], bit)
                                           ELSE part1[i]])
             sqrt_p == try_sqrt(p)
             sqrt_q == try_sqrt(q)
             numerator ==
                 PrimeProduct(Array4([i \in 1..4 |-> ep[i] \div 2]), 1) * Unwrap(sqrt_p)
             denominator ==
                 PrimeProduct(Array4([i \in 1..4 |-> (eq[i] + 1) \div 2]), 1)
                     * Unwrap(sqrt_q)
         IN  IF IsSome(sqrt_p) /\ IsSome(sqrt_q)
             THEN Some(Quadratic(<<numerator, denominator>>, quadratic_part,
                           IF quadratic_part = NoQuadraticPart
                           THEN 0 ELSE quadratic_power))
             ELSE None

\* The test  x.digits() * exponent > max_digits  of power, where digits() is
\* log2 of the larger of numerator and denominator plus log2(PRIMES[i]) *
\* quadratic_part[i] / 2^quadratic_power: with m the larger of numerator and
\* denominator,
\*   m^(exponent * 2^quadratic_power) * prod PRIMES[i]^(exponent * part[i])
\*     > 2^(max_digits * 2^quadratic_power).
\* The right-hand side is kept as hi * 2^15 + lo and divided by the factors
\* of the left-hand side one at a time.
Limb == 32768

WideDiv(w, f) ==
    << w[1] \div f, ((w[1] % f) * Limb + w[2]) \div f >>

WidePow2(e) ==
    IF e < 15 THEN <<0, IPow(2, e)>> ELSE <<IPow(2, e - 15), 0>>

\* w divided (rounding down) by f^count, or <<0, 0>>
RECURSIVE WideDivPow(_, _, _)
WideDivPow(w, f, count) ==
    CASE w = <<0, 0>> \/ count = 0 \/ f = 1 -> w
      [] count = 1 -> WideDiv(w, f)
      [] OTHER -> WideDivPow(WideDivPow(w, f, count \div 2), f,
                             count - count \div 2)

Quadratic_digits_exceed(x, exponent, max_digits) ==
    LET full == IPow(2, x.quadratic_power)
        w0 == WidePow2(max_digits * full)
        w1 == WideDivPow(w0, Max(x.rational_part[1], x.rational_part[2]),
                         exponent * full)
        w2 == WideDivPow(w1, 2, exponent * x.quadratic_part[1])
        w3 == WideDivPow(w2, 3, exponent * x.quadratic_part[2])
        w4 == WideDivPow(w3, 5, exponent * x.quadratic_part[3])
        w5 == WideDivPow(w4, 7, exponent * x.quadratic_part[4])
    IN  <<w0, w1, w2, w3, w4, w5>>[6] = <<0, 0>>

\* ------------------------------------------------------------------------
\* Number (number.rs): the operations every value type offers.  The kind of
\* a solver names its value type.
\* ------------------------------------------------------------------------

from_int(kind, x) ==
    CASE kind = "i64" -> x
      [] kind = "Rational" -> RatFromInt(x)
      [] kind = "RationalQuadratic" -> Quadratic_from_int(x)

to_int(kind, x) ==
    CASE kind = "i64" -> Some(x)
      [] kind = "Rational" -> IF RatIsInteger(x) THEN Some(x[1]) ELSE None
      [] kind = "RationalQuadratic" -> Quadratic_to_int(x)

is_int(kind, x) == IsSome(to_int(kind, x))

zero(kind) == from_int(kind, 0)

\* ------------------------------------------------------------------------
\* Solver<T> (solver/mod.rs, solver/solver.rs)
\*
\* A solver is a record.  An operation of the solver that mutates it and
\* returns a bool is an operator from the solver to [s, found]: the solver
\* afterwards and the returned bool.  The field calls is a history of the
\* pairs handed to binary_operation, kept for the statements about the
\* enumeration; no operation reads it.
\* ------------------------------------------------------------------------

Limits(max_digits, max_factorial, max_quadratic_power) ==
    [max_digits |-> max_digits,
     max_factorial |-> max_factorial,
     max_quadratic_power |-> max_quadratic_power]

State(number, digits, expression) ==
    [number |-> number, digits |-> digits, expression |-> expression]

SearchState_None == <<"None">>

SearchState_Concat == <<"Concat">>

SearchState_ExtraState(i) == <<"ExtraState", i>>

SearchState_UnaryOperation(i) == <<"UnaryOperation", i>>

SearchState_BinaryOperationOfDifferentDepth(d1, i, j) ==
    <<"BinaryOperationOfDifferentDepth", d1, i, j>>

SearchState_BinaryOperationOfSameDepth(i, j) ==
    <<"BinaryOperationOfSameDepth", i, j>>

SearchState_Finish == <<"Finish">>

new(kind, n, limits) ==
    [struct |-> "Solver",
     kind |-> kind,
     n |-> n,
     target |-> zero(kind),
     states |-> <<>>,
     states_by_depth |-> <<>>,
     extra_states_by_depth |-> <<>>,
     depth_searched |-> 0,
     search_state |-> SearchState_None,
     limits |-> limits,
     progressive |-> FALSE,
     new_numbers |-> <<>>,
     calls |-> <<>>,
     phases |-> <<>>,
     thunks |-> 0,
     build |-> None,
     panicked |-> FALSE]

\* Solver::new in a program built with or without overflow checks.
new_in(build, kind, n, limits) ==
    [new(kind, n, limits) EXCEPT !.build = Some(build)]

new_progressive(kind, n, limits) ==
    [new(kind, n, limits) EXCEPT !.progressive = TRUE]

\* RationalSolver::new (solver/rational.rs): the solver of the rationals
\* that has its own search.  Its operations are those of Solver<Rational>
\* without the progressive restrictions; where the two differ the operation
\* looks at the field struct.
RationalSolver_new(n, limits) ==
    [new("Rational", n, limits) EXCEPT !.struct = "RationalSolver"]

clone_non_progressive_from(source) ==
    [source EXCEPT !.progressive = FALSE]

\* Vec::resize(n, vec![]): truncates or pads with empty vectors.
Resize(v, n) ==
    IF n <= Len(v)
    THEN SubSeq(v, 1, n)
    ELSE v \o [k \in 1..(n - Len(v)) |-> <<>>]

contains_key(s, x) == x \in DOMAIN s.states

get_solution(s, x) ==
    IF contains_key(s, x) THEN Some(s.states[x]) ELSE None

Result(s, found) == [s |-> s, found |-> found]

\* The result of running r2 after r: the state of r2, found by either.
Or(r, r2) == IF r.found THEN Result(r2.s, TRUE) ELSE r2

\* The result of a sequence of operations, each run on the solver the one
\* before left: the state of the last, found by any.
OrAll(rs) == Result(rs[Len(rs)].s, \E k \in DOMAIN rs : rs[k].found)

\* An operation that is not applied.
Skip(r) == Result(r.s, FALSE)

\* The range check of the integers with one more bit.
range_check_i64_one_more_bit(s, x) == x <= IPow(2, s.limits.max_digits + 1)

range_check_i64(s, x) == x <= IPow(2, s.limits.max_digits)

range_check_Rational(s, x) ==
    /\ x[1] <= IPow(2, s.limits.max_digits)
    /\ x[2] <= IPow(2, s.limits.max_digits)

range_check_RationalQuadratic(s, x) ==
    /\ x.rational_part[1] <= IPow(2, s.limits.max_digits)
    /\ x.rational_part[2] <= IPow(2, s.limits.max_digits)
    /\ x.quadratic_power <= s.limits.max_quadratic_power

insert(s, x, digits, expression) ==
    LET by == IF Len(s.states_by_depth) <= digits
              THEN Resize(s.states_by_depth, digits + 1)
              ELSE s.states_by_depth
    IN  Result([s EXCEPT
                  !.states = (x :> <<expression, digits>>) @@ s.states,
                  !.states_by_depth = [by EXCEPT ![digits + 1] = Append(@, x)],
                  !.new_numbers = IF s.progressive \/ s.struct = "RationalSolver"
                                  THEN Append(@, x)
                                  ELSE @],
               x = s.target)

insert_extra(s, x, digits, expression) ==
    LET ex == IF Len(s.extra_states_by_depth) <= digits
              THEN Resize(s.extra_states_by_depth, digits + 1)
              ELSE s.extra_states_by_depth
    IN  [s EXCEPT !.extra_states_by_depth =
                      [ex EXCEPT ![digits + 1] = Append(@, <<x, expression>>)]]

clear_new_numbers(s) == [s EXCEPT !.new_numbers = <<>>]

\* ------------------------------------------------------------------------
\* The insertion gate and the unary operations (solver/range_check.rs,
\* solver/solver.rs, solver/unary_operation.rs)
\*
\* An operation that inserts through check is an operator to the sequence
\* of the check calls it makes, in the order it makes them; perform makes
\* the calls of a sequence one after the other on the solver.  No operation
\* reads the table between two of its calls, so the calls of an operation
\* depend on its operands and on the limits only.
\* ------------------------------------------------------------------------

range_check(s, x) ==
    CASE s.kind = "i64" -> range_check_i64(s, x)
      [] s.kind = "Rational" -> range_check_Rational(s, x)
      [] s.kind = "RationalQuadratic" -> range_check_RationalQuadratic(s, x)

\* The gate of try_insert: the value is in range and not yet in the table.
gate(s, x) == range_check(s, x) /\ ~contains_key(s, x)

\* One call check(x, digits, expression).  otherwise holds the calls that
\* are made only when this one returned false.
Call(x, digits, expression) ==
    [x |-> x, digits |-> digits, expression |-> expression, otherwise |-> <<>>]

\* if check(c) { true } else { calls }
OrElse(c, calls) == [c EXCEPT !.otherwise = calls]

sqrt_i64(s, x) ==
    LET y == try_sqrt(x.number)
    IN  IF IsSome(y)
        THEN <<Call(Unwrap(y), x.digits, from_sqrt(x.expression, 1))>>
        ELSE <<>>

sqrt_Rational(s, x) ==
    LET p == try_sqrt(x.number[1])
        q == try_sqrt(x.number[2])
    IN  IF IsSome(p) /\ IsSome(q)
        THEN <<Call(<<Unwrap(p), Unwrap(q)>>, x.digits,
                    from_sqrt(x.expression, 1))>>
        ELSE <<>>

sqrt_result_RationalQuadratic(result, x) ==
    IF IsSome(result)
    THEN <<Call(Unwrap(result), x.digits, from_sqrt(x.expression, 1))>>
    ELSE <<>>

sqrt_RationalQuadratic(s, x) ==
    IF x.number.quadratic_power < s.limits.max_quadratic_power
    THEN sqrt_result_RationalQuadratic(Quadratic_try_sqrt(x.number), x)
    ELSE <<>>

sqrt(s, x) ==
    CASE s.kind = "i64" -> sqrt_i64(s, x)
      [] s.kind = "Rational" -> sqrt_Rational(s, x)
      [] s.kind = "RationalQuadratic" -> sqrt_RationalQuadratic(s, x)

\* factorial giving one more than the factorial.
Solver_factorial_one_more(s, n, x) ==
    IF IsSome(n) /\ Unwrap(n) < s.limits.max_factorial
    THEN <<Call(from_int(s.kind, factorial(Unwrap(n)) + 1), x.digits,
                from_factorial(x.expression))>>
    ELSE <<>>

Solver_factorial_of(s, n, x) ==
    IF IsSome(n) /\ Unwrap(n) < s.limits.max_factorial
    THEN <<Call(from_int(s.kind, factorial(Unwrap(n))), x.digits,
                from_factorial(x.expression))>>
    ELSE <<>>

Solver_factorial(s, x) == Solver_factorial_of(s, to_int(s.kind, x.number), x)

RECURSIVE try_insert(_, _, _, _)
RECURSIVE perform(_, _)

\* let expression = expression_fn(): the solver counts the thunks it
\* evaluated.
expression_fn(s) == [s EXCEPT !.thunks = @ + 1]

\* try_insert evaluating the thunk before the gate.
try_insert_evaluating_first(s, x, digits, expression) ==
    IF ~gate(s, x)
    THEN Result(expression_fn(s), FALSE)
    ELSE perform(insert(expression_fn(s), x, digits, expression),
                 sqrt(s, State(x, digits, expression))
                 \o (IF is_int(s.kind, x)
                     THEN Solver_factorial(s, State(x, digits, expression))
                     ELSE <<>>))

\* try_insert: insert, then sqrt, then factorial of an integer; true when
\* any of them reached the target.
try_insert(s, x, digits, expression) ==
    IF ~gate(s, x)
    THEN Result(s, FALSE)
    ELSE perform(insert(expression_fn(s), x, digits, expression),
                 sqrt(s, State(x, digits, expression))
                 \o (IF is_int(s.kind, x)
                     THEN Solver_factorial(s, State(x, digits, expression))
                     ELSE <<>>))

\* check(v, d, thunk): the gate the operations insert through.
check(s, x, digits, expression) == try_insert(s, x, digits, expression)

\* The calls that follow a call that returned false.
otherwise(r, calls) == IF r.found THEN r ELSE perform(r, calls)

\* A panic ends the program: the solver is marked, and true unwinds the
\* loops as a return does.
panic(s) == Result([s EXCEPT !.panicked = TRUE], TRUE)

check_call(s, c) ==
    IF s.kind = "Rational" /\ c.x = Panic
    THEN panic(s)
    ELSE otherwise(check(s, c.x, c.digits, c.expression), c.otherwise)

\* The calls of a sequence, each made on the solver the one before left:
\* the solver after the last, true when any call returned true.
perform(r, calls) ==
    IF calls = <<>> \/ r.s.panicked
    THEN r
    ELSE perform(Or(r, check_call(r.s, Head(calls))), Tail(calls))

concat_calls(s, digits, x) ==
    <<Call(from_int(s.kind, x), digits, from_number(x))>>

\* concat with the size test 10^digits > 2^max_digits.
concat_ignoring_log2_9(s, digits) ==
    IF IPow(10, digits) > IPow(2, s.limits.max_digits)
    THEN Result(s, FALSE)
    ELSE perform(Result(s, FALSE),
                 concat_calls(s, digits, ((IPow(10, digits) - 1) \div 9) * s.n))

\* digits * log2(10) - log2(9) > max_digits, that is 10^digits / 9 >
\* 2^max_digits; 10^digits is no multiple of 9, so the quotient rounded down
\* is at least 2^max_digits.
concat(s, digits) ==
    IF IPow(10, digits) \div 9 >= IPow(2, s.limits.max_digits)
    THEN Result(s, FALSE)
    ELSE perform(Result(s, FALSE),
                 concat_calls(s, digits, ((IPow(10, digits) - 1) \div 9) * s.n))

need_unary_operation_i64(s, x) ==
    s.n # 1 /\ x.number # 1 /\ is_divide(x.expression)

need_unary_operation_Rational(s, x) ==
    s.n # 1 /\ RatIsOne(x.number) /\ is_divide(x.expression)

need_unary_operation_RationalQuadratic(s, x) ==
    /\ s.n # 1
    /\ Quadratic_is_rational(x.number)
    /\ Quadratic_to_int(x.number) # Some(1)
    /\ is_divide(x.expression)

need_unary_operation_RationalSolver(s, x) ==
    s.n # 1 /\ to_int("Rational", x.number) # Some(1) /\ is_divide(x.expression)

need_unary_operation(s, x) ==
    CASE s.struct = "RationalSolver" -> need_unary_operation_RationalSolver(s, x)
      [] s.kind = "i64" -> need_unary_operation_i64(s, x)
      [] s.kind = "Rational" -> need_unary_operation_Rational(s, x)
      [] s.kind = "RationalQuadratic" ->
           need_unary_operation_RationalQuadratic(s, x)

division_diff_one_i64(s, x, digits, numerator, denominator) ==
    (IF x > 1
     THEN <<Call(x - 1, digits,
                 from_divide(from_subtract(numerator, denominator),
                             denominator))>>
     ELSE <<>>)
    \o <<Call(x + 1, digits,
              from_divide(from_add(numerator, denominator), denominator))>>

\* The two calls of a value v next to x and of its reciprocal w; sum is the
\* expression of the numerator of v.
division_diff_one_pair(v, w, digits, sum, denominator) ==
    <<Call(v, digits, from_divide(sum, denominator)),
      Call(w, digits, from_divide(denominator, sum))>>

division_diff_one_Rational(s, x, digits, numerator, denominator) ==
    (IF x[1] < x[2]
     THEN division_diff_one_pair(RatSub(RatFromInt(1), x),
              RatInv(RatSub(RatFromInt(1), x)), digits,
              from_subtract(denominator, numerator), denominator)
     ELSE IF x[1] > x[2]
     THEN division_diff_one_pair(RatSub(x, RatFromInt(1)),
              RatInv(RatSub(x, RatFromInt(1))), digits,
              from_subtract(numerator, denominator), denominator)
     ELSE <<>>)
    \o division_diff_one_pair(RatAdd(x, RatFromInt(1)),
           RatInv(RatAdd(x, RatFromInt(1))), digits,
           from_add(numerator, denominator), denominator)

division_diff_one_quadratic_pair(v, digits, sum, denominator) ==
    division_diff_one_pair(v, Quadratic_inverse(v), digits, sum, denominator)

division_diff_one_RationalQuadratic(s, x, digits, numerator, denominator) ==
    (IF x.rational_part[1] < x.rational_part[2]
     THEN division_diff_one_quadratic_pair(
              Quadratic_negate(Quadratic_subtract_integer(x, 1)), digits,
              from_subtract(denominator, numerator), denominator)
     ELSE IF x.rational_part[1] > x.rational_part[2]
     THEN division_diff_one_quadratic_pair(
              Quadratic_subtract_integer(x, 1), digits,
              from_subtract(numerator, denominator), denominator)
     ELSE <<>>)
    \o division_diff_one_quadratic_pair(Quadratic_add_integer(x, 1), digits,
           from_add(numerator, denominator), denominator)

division_diff_one(s, x, digits, numerator, denominator) ==
    CASE s.kind = "i64" ->
           division_diff_one_i64(s, x, digits, numerator, denominator)
      [] s.kind = "Rational" ->
           division_diff_one_Rational(s, x, digits, numerator, denominator)
      [] s.kind = "RationalQuadratic" ->
           division_diff_one_RationalQuadratic(s, x, digits, numerator,
                                               denominator)

\* The loop of unary_operation over the left spine of the denominator's
\* product: lhs is what is left of the spine, rhs the factors passed so far
\* (None or Some(product)).  The result is the pair <<numerator,
\* denominator>> division_diff_one is called with, or None.
RECURSIVE unary_operation_loop(_, _, _)
unary_operation_loop(numerator, lhs, rhs) ==
    IF ~is_multiply(lhs)
    THEN None
    ELSE IF is_single_digit(lhs[3])
    THEN Some(<<from_divide(numerator,
                    IF IsSome(rhs) THEN from_multiply(lhs[2], Unwrap(rhs))
                                   ELSE lhs[2]),
                lhs[3]>>)
    ELSE unary_operation_loop(numerator, lhs[2],
             IF IsSome(rhs) THEN Some(from_multiply(lhs[3], Unwrap(rhs)))
                            ELSE Some(lhs[3]))

unary_operation_split(x) ==
    IF is_single_digit(x.expression[3])
    THEN Some(<<x.expression[2], x.expression[3]>>)
    ELSE unary_operation_loop(x.expression[2], x.expression[3], None)

unary_operation_calls(s, x, split) ==
    IF IsSome(split)
    THEN division_diff_one(s, x.number, x.digits, Unwrap(split)[1],
                           Unwrap(split)[2])
    ELSE <<>>

unary_operation(s, x) ==
    IF ~need_unary_operation(s, x)
    THEN Result(s, FALSE)
    ELSE perform(Result(s, FALSE),
                 unary_operation_calls(s, x, unary_operation_split(x)))

\* ------------------------------------------------------------------------
\* Binary operations (solver/binary_operation.rs)
\* ------------------------------------------------------------------------

\* i64::checked_mul.  The model's machine word has WordBits bits; the word
\* is scaled down with max_digits so that, as in the program, the product
\* of two values in range may not fit.
checked_mul(x, y) ==
    IF x * y >= IPow(2, WordBits - 1) THEN None ELSE Some(x * y)

\* The loop of power: halve an even exponent, counting the square roots,
\* while base^exponent is beyond 2^max_digits; give up at an odd exponent.
\* Some(<<exponent, sqrt_order>>) or None.
RECURSIVE power_exponent(_, _, _, _)
power_exponent(base, exponent, sqrt_order, max_digits) ==
    IF PowExceeds(base, exponent, IPow(2, max_digits))
    THEN IF exponent % 2 = 0
         THEN power_exponent(base, exponent \div 2, sqrt_order + 1, max_digits)
         ELSE None
    ELSE Some(<<exponent, sqrt_order>>)

\* The size test of factorial_divide:
\* (x - y) * (log2 x + log2 y) > 2 * max_digits.
factorial_divide_too_big(x, y, max_digits) ==
    PowExceeds(x * y, x - y, IPow(2, 2 * max_digits))

add_i64(s, x, y) ==
    <<Call(x.number + y.number, x.digits + y.digits,
           from_add(x.expression, y.expression))>>

\* subtract recording the operands in the other order.
subtract_i64_operands_swapped(s, x, y) ==
    IF x.number = y.number
    THEN <<>>
    ELSE <<Call(x.number - y.number, x.digits + y.digits,
                from_subtract(y.expression, x.expression))>>

subtract_i64(s, x, y) ==
    IF x.number = y.number
    THEN <<>>
    ELSE <<Call(x.number - y.number, x.digits + y.digits,
                from_subtract(x.expression, y.expression))>>

multiply_i64_product(z, x, y) ==
    IF IsSome(z)
    THEN <<Call(Unwrap(z), x.digits + y.digits,
                from_multiply(x.expression, y.expression))>>
    ELSE <<>>

multiply_i64(s, x, y) ==
    multiply_i64_product(checked_mul(x.number, y.number), x, y)

divide_i64(s, x, y) ==
    IF x.number = y.number
    THEN IF x.number = s.n
         THEN <<Call(1, 2, from_divide(x.expression, x.expression))>>
         ELSE <<>>
    ELSE IF x.number % y.number = 0
    THEN <<Call(x.number \div y.number, x.digits + y.digits,
                from_divide(x.expression, y.expression))>>
    ELSE <<>>

power_i64_result(e, x, y) ==
    IF IsSome(e)
    THEN <<Call(IPow(x.number, Unwrap(e)[1]), x.digits + y.digits,
                from_sqrt(from_power(x.expression, y.expression),
                          Unwrap(e)[2]))>>
    ELSE <<>>

\* (The guard y > 0x80000000 is beyond every value in range and is left out.)
power_i64(s, x, y) ==
    IF x.number = 1 \/ y.number = 1
    THEN <<>>
    ELSE power_i64_result(
             power_exponent(x.number, y.number, 0, s.limits.max_digits), x, y)

factorial_divide_i64(s, x, y) ==
    IF x.number = y.number
    THEN <<>>
    ELSE IF \/ x.number <= s.limits.max_factorial
            \/ y.number <= 2
            \/ x.number - y.number = 1
            \/ factorial_divide_too_big(x.number, y.number, s.limits.max_digits)
    THEN <<>>
    ELSE <<Call(factorial_divide(x.number, y.number), x.digits + y.digits,
                from_divide(from_factorial(x.expression),
                            from_factorial(y.expression)))>>

binary_operation_ordered_i64(s, x, y, hi, lo) ==
    divide_i64(s, hi, lo)
    \o multiply_i64(s, x, y)
    \o add_i64(s, x, y)
    \o subtract_i64(s, hi, lo)
    \o power_i64(s, x, y)
    \o power_i64(s, y, x)
    \o factorial_divide_i64(s, hi, lo)

binary_operation_i64(s, x, y) ==
    IF x.number < y.number
    THEN binary_operation_ordered_i64(s, x, y, y, x)
    ELSE binary_operation_ordered_i64(s, x, y, x, y)

add_Rational(s, x, y) ==
    <<Call(Ratio_in_word(s, RatAdd(x.number, y.number)), x.digits + y.digits,
           from_add(x.expression, y.expression))>>

subtract_result_Rational(result, x, y) ==
    IF result = Panic
    THEN <<Call(Panic, x.digits + y.digits, x.expression)>>
    ELSE IF result[1] = 0
    THEN <<>>
    ELSE IF result[1] < 0
    THEN <<Call(RatNeg(result), x.digits + y.digits,
                from_subtract(y.expression, x.expression))>>
    ELSE <<Call(result, x.digits + y.digits,
                from_subtract(x.expression, y.expression))>>

subtract_Rational(s, x, y) ==
    subtract_result_Rational(Ratio_in_word(s, RatSub(x.number, y.number)),
                             x, y)

multiply_Rational(s, x, y) ==
    <<Call(Ratio_in_word(s, RatMul(x.number, y.number)), x.digits + y.digits,
           from_multiply(x.expression, y.expression))>>

\* The calls of divide for a quotient and its reciprocal.
divide_result(result, inverse, x, y) ==
    (IF ~is_divide(y.expression)
     THEN <<Call(result, x.digits + y.digits,
                 from_divide(x.expression, y.expression))>>
     ELSE <<>>)
    \o (IF ~is_divide(x.expression)
        THEN <<Call(inverse, x.digits + y.digits,
                    from_divide(y.expression, x.expression))>>
        ELSE <<>>)

\* let result = x.number / y.number, which panics before any check.
divide_quotient(result, x, y) ==
    IF result = Panic
    THEN <<Call(Panic, x.digits + y.digits, x.expression)>>
    ELSE divide_result(result, RatInv(result), x, y)

divide_Rational(s, x, y) ==
    IF x.number = y.number
    THEN IF to_int("Rational", x.number) = Some(s.n)
         THEN <<Call(RatFromInt(1), 2,
                     from_divide(x.expression, x.expression))>>
         ELSE <<>>
    ELSE divide_quotient(Ratio_in_word(s, RatDiv(x.number, y.number)), x, y)

power_result_Rational(e, x, y) ==
    IF ~IsSome(e)
    THEN <<>>
    ELSE <<Call(RatPow(x.number, Unwrap(e)[1]), x.digits + y.digits,
                from_sqrt(from_power(x.expression, y.expression),
                          Unwrap(e)[2]))>>
         \o (IF ~is_divide(x.expression)
             THEN <<Call(RatInv(RatPow(x.number, Unwrap(e)[1])),
                         x.digits + y.digits,
                         from_sqrt(from_power(x.expression,
                                              from_negate(y.expression)),
                                   Unwrap(e)[2]))>>
             ELSE <<>>)

\* (The guard numer > 0x40000000 is beyond every value in range and is left
\* out.)  digits() of a Rational is the larger of the logarithms of its
\* numerator and denominator.
power_Rational(s, x, y) ==
    IF RatIsOne(x.number) \/ RatIsOne(y.number)
    THEN <<>>
    ELSE power_result_Rational(
             power_exponent(Max(x.number[1], x.number[2]), y.number[1], 0,
                            s.limits.max_digits), x, y)

\* The calls of factorial_divide for x! / y! with x > y: the quotient and
\* its reciprocal.
factorial_divide_result(s, x, y, x_int, y_int) ==
    IF \/ x_int <= s.limits.max_factorial
       \/ y_int <= 2
       \/ x_int - y_int = 1
       \/ factorial_divide_too_big(x_int, y_int, s.limits.max_digits)
    THEN <<>>
    ELSE <<Call(from_int(s.kind, factorial_divide(x_int, y_int)),
                x.digits + y.digits,
                from_divide(from_factorial(x.expression),
                            from_factorial(y.expression))),
           Call(IF s.kind = "Rational"
                THEN RatInv(RatFromInt(factorial_divide(x_int, y_int)))
                ELSE Quadratic_inverse(
                         Quadratic_from_int(factorial_divide(x_int, y_int))),
                x.digits + y.digits,
                from_divide(from_factorial(y.expression),
                            from_factorial(x.expression)))>>

factorial_divide_Rational(s, x0, y0) ==
    IF x0.number = y0.number
    THEN <<>>
    ELSE IF x0.number[1] < y0.number[1]
    THEN factorial_divide_result(s, y0, x0, y0.number[1], x0.number[1])
    ELSE factorial_divide_result(s, x0, y0, x0.number[1], y0.number[1])

binary_operation_Rational(s, x, y) ==
    divide_Rational(s, x, y)
    \o (IF ~s.progressive \/ ~RatIsInteger(x.number) \/ ~RatIsInteger(y.number)
        THEN multiply_Rational(s, x, y)
             \o add_Rational(s, x, y)
             \o subtract_Rational(s, x, y)
        ELSE <<>>)
    \o (IF RatIsInteger(y.number) THEN power_Rational(s, x, y) ELSE <<>>)
    \o (IF RatIsInteger(x.number) THEN power_Rational(s, y, x) ELSE <<>>)
    \o (IF RatIsInteger(x.number) /\ RatIsInteger(y.number)
        THEN factorial_divide_Rational(s, x, y)
        ELSE <<>>)

add_RationalQuadratic(s, x, y) ==
    <<Call(Quadratic_add(x.number, y.number), x.digits + y.digits,
           from_add(x.expression, y.expression))>>

subtract_result_RationalQuadratic(result, x, y) ==
    IF result.rational_part[1] = 0
    THEN <<>>
    ELSE IF result.rational_part[1] < 0
    THEN <<Call(Quadratic_negate(result), x.digits + y.digits,
                from_subtract(y.expression, x.expression))>>
    ELSE <<Call(result, x.digits + y.digits,
                from_subtract(x.expression, y.expression))>>

subtract_RationalQuadratic(s, x, y) ==
    subtract_result_RationalQuadratic(Quadratic_subtract(x.number, y.number),
                                      x, y)

multiply_RationalQuadratic(s, x, y) ==
    <<Call(Quadratic_multiply(x.number, y.number), x.digits + y.digits,
           from_multiply(x.expression, y.expression))>>

divide_result_RationalQuadratic(result, x, y) ==
    divide_result(result, Quadratic_inverse(result), x, y)

divide_RationalQuadratic(s, x, y) ==
    IF x.number = y.number
    THEN IF Quadratic_to_int(x.number) = Some(s.n)
         THEN <<Call(Quadratic_from_int(1), 2,
                     from_divide(x.expression, x.expression))>>
         ELSE <<>>
    ELSE divide_result_RationalQuadratic(
             Quadratic_divide(x.number, y.number), x, y)

\* The loop of power for a RationalQuadratic base.
RECURSIVE power_exponent_RationalQuadratic(_, _, _, _)
power_exponent_RationalQuadratic(x, exponent, sqrt_order, max_digits) ==
    IF Quadratic_digits_exceed(x, exponent, max_digits)
    THEN IF exponent % 2 = 0
         THEN power_exponent_RationalQuadratic(x, exponent \div 2,
                                               sqrt_order + 1, max_digits)
         ELSE None
    ELSE Some(<<exponent, sqrt_order>>)

\* The reciprocal is tried only when the power itself did not return true.
power_calls_RationalQuadratic(result, sqrt_order, x, y) ==
    <<OrElse(Call(result, x.digits + y.digits,
                  from_sqrt(from_power(x.expression, y.expression),
                            sqrt_order)),
             IF ~is_divide(x.expression)
             THEN <<Call(Quadratic_inverse(result), x.digits + y.digits,
                         from_sqrt(from_power(x.expression,
                                              from_negate(y.expression)),
                                   sqrt_order))>>
             ELSE <<>>)>>

power_result_RationalQuadratic(e, x, y) ==
    IF ~IsSome(e)
    THEN <<>>
    ELSE power_calls_RationalQuadratic(
             Quadratic_power(x.number, Unwrap(e)[1]), Unwrap(e)[2], x, y)

\* (The guard y_int > 0x40000000 is beyond every value in range and is left
\* out.)
power_RationalQuadratic(s, x, y) ==
    IF Quadratic_to_int(x.number) = Some(1)
       \/ Quadratic_to_int(y.number) = Some(1)
    THEN <<>>
    ELSE power_result_RationalQuadratic(
             power_exponent_RationalQuadratic(x.number,
                 Unwrap(Quadratic_to_int(y.number)), 0, s.limits.max_digits),
             x, y)

factorial_divide_ints_RationalQuadratic(s, x0, y0, x_int, y_int) ==
    IF x_int < y_int
    THEN factorial_divide_result(s, y0, x0, y_int, x_int)
    ELSE factorial_divide_result(s, x0, y0, x_int, y_int)

factorial_divide_RationalQuadratic(s, x0, y0) ==
    IF x0.number = y0.number
    THEN <<>>
    ELSE factorial_divide_ints_RationalQuadratic(s, x0, y0,
             Unwrap(Quadratic_to_int(x0.number)),
             Unwrap(Quadratic_to_int(y0.number)))

\* binary_operation of the radicals, given which operands are rational (xr,
\* yr) and which are integers (xi, yi).
binary_operation_classified_RationalQuadratic(s, x, y, xr, yr, xi, yi) ==
    divide_RationalQuadratic(s, x, y)
    \o (IF ~s.progressive \/ ~xr \/ ~yr
        THEN multiply_RationalQuadratic(s, x, y)
        ELSE <<>>)
    \o (IF /\ ~s.progressive \/ ~xr \/ ~yr
           /\ x.number.quadratic_power = y.number.quadratic_power
           /\ x.number.quadratic_part = y.number.quadratic_part
        THEN add_RationalQuadratic(s, x, y)
             \o subtract_RationalQuadratic(s, x, y)
        ELSE <<>>)
    \o (IF yi /\ (~s.progressive \/ ~xr)
        THEN power_RationalQuadratic(s, x, y)
        ELSE <<>>)
    \o (IF xi /\ (~s.progressive \/ ~yr)
        THEN power_RationalQuadratic(s, y, x)
        ELSE <<>>)
    \o (IF xi /\ yi /\ ~s.progressive
        THEN factorial_divide_RationalQuadratic(s, x, y)
        ELSE <<>>)

binary_operation_RationalQuadratic(s, x, y) ==
    binary_operation_classified_RationalQuadratic(s, x, y,
        Quadratic_is_rational(x.number), Quadratic_is_rational(y.number),
        IsSome(Quadratic_to_int(x.number)), IsSome(Quadratic_to_int(y.number)))

binary_operation_calls(s, x, y) ==
    CASE s.kind = "i64" -> binary_operation_i64(s, x, y)
      [] s.kind = "Rational" -> binary_operation_Rational(s, x, y)
      [] s.kind = "RationalQuadratic" ->
           binary_operation_RationalQuadratic(s, x, y)

binary_operation(s, x, y) ==
    perform(Result(s, FALSE), binary_operation_calls(s, x, y))

\* ------------------------------------------------------------------------
\* The level search (solver/searcher.rs)
\* ------------------------------------------------------------------------

\* states_by_depth[d] and the state of the value at position i (from 0) of
\* it, at digit count digits.
by_depth(s, d) == s.states_by_depth[d + 1]

state_of(s, number, digits) == State(number, digits, s.states[number][1])

state_at(s, d, i, digits) == state_of(s, by_depth(s, d)[i + 1], digits)

\* The binary_operation call of the search, entered in the history.
call_binary_operation(s, digits, d1, i, d2, j) ==
    binary_operation([s EXCEPT !.calls = Append(@, <<digits, d1, i, j>>)],
                     state_at(s, d1, i, d1), state_at(s, d2, j, d2))

\* Vec::sort on the i64 values: the element of rank i goes to position i
\* (ties keep their order).
Sort(v) ==
    LET rank == [k \in DOMAIN v |->
                    Cardinality({j \in DOMAIN v :
                                    v[j] < v[k] \/ (v[j] = v[k] /\ j < k)}) + 1]
    IN  <<>> \o [i \in DOMAIN v |-> v[CHOOSE k \in DOMAIN v : rank[k] = i]]

sort_states(s, digits) ==
    IF s.kind = "i64"
    THEN [s EXCEPT !.states_by_depth[digits + 1] = Sort(@)]
    ELSE s

\* The first of two results that found the target, else the second.
First2(r1, r2) == IF r1.found THEN r1 ELSE r2

\* The loops of search.  ForLoop(Body, s, lo, hi) is the loop
\*     for k in lo..hi { if body(k) { return true } }
\* on the solver s: the iterations run in the order of the loop, each on the
\* solver the one before left, and stop at the first that returns true.
\* The range lo..hi is cut into two halves that run one after the other.
RECURSIVE ForLoop(_, _, _, _)
ForLoop(Body(_, _), s, lo, hi) ==
    CASE hi <= lo -> Result(s, FALSE)
      [] hi = lo + 1 -> Body(s, lo)
      [] OTHER ->
           LET first == ForLoop(Body, s, lo, (lo + hi) \div 2)
           IN  IF first.found
               THEN first
               ELSE ForLoop(Body, first.s, (lo + hi) \div 2, hi)

\* An assignment to search_state.  The assignment that enters another
\* phase is entered in the history, with depth_searched as it is then.
set_search_state(s, state) ==
    [s EXCEPT !.search_state = state,
              !.phases = IF s.search_state[1] = state[1]
                         THEN @
                         ELSE Append(@, <<state[1], s.depth_searched>>)]

\* The result r of a phase or of a loop that did not return early, with
\* search_state set to state.
Advance(r, state) ==
    IF r.found THEN r ELSE Result(set_search_state(r.s, state), FALSE)

\* body of the extra-state loop
search_extra_item(s, digits, item) == check(s, item[1], digits, item[2])

search_extra_at(s, digits, i) ==
    search_extra_item(set_search_state(s, SearchState_ExtraState(i + 1)),
                      digits, s.extra_states_by_depth[digits + 1][i + 1])

search_extra_loop(s, digits, lo, hi) ==
    ForLoop(LAMBDA t, i : search_extra_at(t, digits, i), s, lo, hi)

\* body of the unary loop
search_unary_at(s, digits, i) ==
    unary_operation(
        set_search_state(s, SearchState_UnaryOperation(i + 1)),
        state_at(s, digits - 1, i, digits))

search_unary_loop(s, digits, lo, hi) ==
    ForLoop(LAMBDA t, i : search_unary_at(t, digits, i), s, lo, hi)

\* body of the loop over j of the unequal-depth phase; start is
\* <<start_depth, start_position.0, start_position.1>>
search_different_at(s, digits, d1, i, j, start) ==
    IF d1 = start[1] /\ i = start[2] /\ j < start[3]
    THEN Result(s, FALSE)
    ELSE call_binary_operation(
             set_search_state(s,
                 SearchState_BinaryOperationOfDifferentDepth(d1, i, j + 1)),
             digits, d1, i, digits - d1, j)

search_different_j(s, digits, d1, i, lo, hi, start) ==
    ForLoop(LAMBDA t, j : search_different_at(t, digits, d1, i, j, start),
            s, lo, hi)

\* body of the loop over i of the unequal-depth phase
search_different_row(s, digits, d1, i, l2, start) ==
    IF d1 = start[1] /\ i < start[2]
    THEN Result(s, FALSE)
    ELSE Advance(search_different_j(s, digits, d1, i, 0, l2, start),
                 SearchState_BinaryOperationOfDifferentDepth(d1, i + 1, 0))

search_different_i(s, digits, d1, lo, hi, l2, start) ==
    ForLoop(LAMBDA t, i : search_different_row(t, digits, d1, i, l2, start),
            s, lo, hi)

\* body of the loop over d1 of the unequal-depth phase
search_different_depth(s, digits, d1, start) ==
    Advance(search_different_i(s, digits, d1, 0, Len(by_depth(s, d1)),
                               Len(by_depth(s, digits - d1)), start),
            SearchState_BinaryOperationOfDifferentDepth(d1 + 1, 0, 0))

\* The loop over d1 going through digits >> 1, the equal split included.
search_different_d_through_half(s, digits, d1, start) ==
    ForLoop(LAMBDA t, d : search_different_depth(t, digits, d, start),
            s, d1, digits \div 2 + 1)

\* for d1 in start_depth..((digits + 1) >> 1)
search_different_d(s, digits, d1, start) ==
    ForLoop(LAMBDA t, d : search_different_depth(t, digits, d, start),
            s, d1, (digits + 1) \div 2)

\* body of the loop over j of the equal-depth phase; start is
\* <<start_position.0, start_position.1>>
search_same_at(s, digits, i, j, start) ==
    IF i = start[1] /\ j < start[2]
    THEN Result(s, FALSE)
    ELSE call_binary_operation(
             set_search_state(s,
                 SearchState_BinaryOperationOfSameDepth(i, j + 1)),
             digits, digits \div 2, i, digits \div 2, j)

search_same_j(s, digits, i, lo, hi, start) ==
    ForLoop(LAMBDA t, j : search_same_at(t, digits, i, j, start), s, lo, hi)

\* body of the loop over i of the equal-depth phase
search_same_row(s, digits, i, l, start) ==
    Advance(search_same_j(s, digits, i, i, l, start),
            SearchState_BinaryOperationOfSameDepth(i + 1, i + 1))

search_same_i(s, digits, lo, hi, l, start) ==
    ForLoop(LAMBDA t, i : search_same_row(t, digits, i, l, start), s, lo, hi)

\* The row the equal-depth phase starts from when it is entered at
\* start_position = <<start[1], start[2]>>: "for i in start_position.0..l"
\* in Searcher::search, "for i in start_position.1..l" in
\* RationalSolver::search.
same_depth_first_row(s, start) ==
    IF s.struct = "RationalSolver" THEN start[2] ELSE start[1]

\* The start of a level resizing to the levels below.
search_none_resizing_short(s, digits) ==
    IF s.search_state = SearchState_None
    THEN [set_search_state(s, SearchState_Concat) EXCEPT
                   !.states_by_depth = Resize(@, digits)]
    ELSE s

search_none(s, digits) ==
    IF s.search_state = SearchState_None
    THEN [set_search_state(s, SearchState_Concat) EXCEPT
                   !.states_by_depth = Resize(@, digits + 1)]
    ELSE s

\* The phases of search.  A phase runs on the result r of the phases before
\* it: not at all when one of them returned true, and only when
\* search_state names it.
search_concat(s, digits) ==
    IF s.search_state = SearchState_Concat
    THEN concat(set_search_state(s, SearchState_ExtraState(0)), digits)
    ELSE Result(s, FALSE)

search_extra(r, digits) ==
    IF ~r.found /\ r.s.search_state[1] = "ExtraState"
    THEN Advance(IF Len(r.s.extra_states_by_depth) > digits
                 THEN search_extra_loop(r.s, digits, r.s.search_state[2],
                          Len(r.s.extra_states_by_depth[digits + 1]))
                 ELSE r,
                 SearchState_UnaryOperation(0))
    ELSE r

\* The unary phase handing over to the equal-depth phase.
search_unary_then_same_depth(r, digits) ==
    IF ~r.found /\ r.s.search_state[1] = "UnaryOperation"
    THEN Advance(search_unary_loop(r.s, digits, r.s.search_state[2],
                                   Len(by_depth(r.s, digits - 1))),
                 SearchState_BinaryOperationOfSameDepth(0, 0))
    ELSE r

search_unary(r, digits) ==
    IF ~r.found /\ r.s.search_state[1] = "UnaryOperation"
    THEN Advance(search_unary_loop(r.s, digits, r.s.search_state[2],
                                   Len(by_depth(r.s, digits - 1))),
                 SearchState_BinaryOperationOfDifferentDepth(1, 0, 0))
    ELSE r

search_different(r, digits) ==
    IF ~r.found /\ r.s.search_state[1] = "BinaryOperationOfDifferentDepth"
    THEN Advance(search_different_d(r.s, digits, r.s.search_state[2],
                                    Tail(r.s.search_state)),
                 SearchState_BinaryOperationOfSameDepth(0, 0))
    ELSE r

search_same(r, digits) ==
    IF ~r.found /\ r.s.search_state[1] = "BinaryOperationOfSameDepth"
    THEN Advance(IF digits % 2 = 0
                 THEN search_same_i(r.s, digits,
                          same_depth_first_row(r.s, Tail(r.s.search_state)),
                          Len(by_depth(r.s, digits \div 2)),
                          Len(by_depth(r.s, digits \div 2)),
                          Tail(r.s.search_state))
                 ELSE r,
                 SearchState_Finish)
    ELSE r

search_finish(r, digits) ==
    IF r.found
    THEN r
    ELSE Result(set_search_state(
                    [sort_states(r.s, digits) EXCEPT !.depth_searched = digits],
                    SearchState_None),
                FALSE)

search(s, digits) ==
    search_finish(
        search_same(
            search_different(
                search_unary(
                    search_extra(search_concat(search_none(s, digits), digits),
                                 digits),
                    digits),
                digits),
            digits),
        digits)

\* ------------------------------------------------------------------------
\* solve (solver/solver.rs)
\* ------------------------------------------------------------------------

\* The outcome of solve: the solver afterwards, the returned Option and
\* the number of search calls made.
Solved(s, result, searches) ==
    [s |-> s, result |-> result, searches |-> searches]

RECURSIVE solve_loop(_, _, _, _)
RECURSIVE solve_searched(_, _, _, _)

\* the body of the loop after search(digits) returned r
solve_searched(r, digits, max_depth, searches) ==
    IF r.found
    THEN Solved(r.s, get_solution(r.s, r.s.target), searches + 1)
    ELSE solve_loop(r.s, digits + 1, max_depth, searches + 1)

\* for digits in from..=max_depth
solve_loop(s, digits, max_depth, searches) ==
    IF digits > max_depth
    THEN Solved(s, None, searches)
    ELSE solve_searched(search(s, digits), digits, max_depth, searches)

\* solve returning the stored entry whatever its depth.
solve_ignoring_max_depth(s0, target, max_depth) ==
    LET s == [s0 EXCEPT !.target = target]
    IN  IF contains_key(s, target)
        THEN Solved(s, Some(s.states[target]), 0)
        ELSE solve_loop(s, s.depth_searched + 1, max_depth, 0)

\* solve starting from an empty table.
solve_from_scratch(s0, target, max_depth) ==
    solve_loop([s0 EXCEPT !.target = target, !.states = <<>>,
                          !.states_by_depth = <<>>,
                          !.extra_states_by_depth = <<>>,
                          !.depth_searched = 0,
                          !.search_state = SearchState_None],
               1, max_depth, 0)

\* solve searching without looking the target up in the table first.
solve_without_lookup(s0, target, max_depth) ==
    solve_loop([s0 EXCEPT !.target = target], s0.depth_searched + 1, max_depth,
               0)

solve(s0, target, max_depth) ==
    LET s == [s0 EXCEPT !.target = target]
    IN  IF contains_key(s, target)
        THEN IF max_depth >= s.states[target][2]
             THEN Solved(s, Some(s.states[target]), 0)
             ELSE Solved(s, None, 0)
        ELSE solve_loop(s, s.depth_searched + 1, max_depth, 0)

\* RationalSolver::solve (solver/rational.rs)
RationalSolver_solve(s0, target, max_depth) ==
    LET s == [s0 EXCEPT !.target = target, !.new_numbers = <<>>]
    IN  IF contains_key(s, target) /\ max_depth >= s.states[target][2]
        THEN Solved(s, Some(s.states[target]), 0)
        ELSE solve_loop(s, s.depth_searched + 1, max_depth, 0)

\* ------------------------------------------------------------------------
\* ProgressiveSolver (progressive_solver.rs)
\*
\* The driver is a record; search returns [s, found] with s the driver
\* afterwards.
\* ------------------------------------------------------------------------

ProgressiveSolver_new(n, target, max_depth, integral_limits, rational_limits, quadratic_limits) ==
    [target |-> target,
     max_depth |-> max_depth,
     integral_solver |-> new_progressive("i64", n, integral_limits),
     full_integral_solver |-> new("i64", n, integral_limits),
     rational_solver |-> new_progressive("Rational", n, rational_limits),
     rational_quadratic_solver |->
         new_progressive("RationalQuadratic", n, quadratic_limits),
     depth_searched |-> 0,
     search_state |-> "None",
     stages |-> <<>>,
     look_aheads |-> <<>>]

\* Solver::new_numbers: the item (x, expression, digits) of the iterator at
\* position k (from 0).
new_number(s, k) ==
    <<s.new_numbers[k + 1], s.states[s.new_numbers[k + 1]][1],
      s.states[s.new_numbers[k + 1]][2]>>

new_numbers(s) == [k \in 1..Len(s.new_numbers) |-> new_number(s, k - 1)]

get_solution_or(a, b) == IF IsSome(a) THEN a ELSE b

ProgressiveSolver_get_solution(p, x) ==
    get_solution_or(get_solution(p.integral_solver, x),
        get_solution_or(get_solution(p.rational_solver, RatFromInt(x)),
            get_solution_or(
                get_solution(p.rational_quadratic_solver,
                             Quadratic_from_int(x)),
                get_solution(p.full_integral_solver, x))))

ProgressiveSolver_clear_new_numbers(p) ==
    [p EXCEPT !.integral_solver = clear_new_numbers(@),
              !.rational_solver = clear_new_numbers(@),
              !.rational_quadratic_solver = clear_new_numbers(@)]

\* The promotion recording one digit more.
promote_into_one_deeper(s, offered, digits, expression) ==
    IF IsSome(offered)
    THEN try_insert(s, Unwrap(offered), digits + 1, expression).s
    ELSE s

\* try_insert of a promoted number into the solver s when offered is Some.
promote_into(s, offered, digits, expression) ==
    IF IsSome(offered)
    THEN try_insert(s, Unwrap(offered), digits, expression).s
    ELSE s

\* The integral stage offering its new numbers to the rational quadratic
\* solver alone.
promote_integral_to_quadratic_only(p, digits, item) ==
    Result([p EXCEPT
              !.rational_quadratic_solver =
                  promote_into(@, Some(Quadratic_from_int(item[1])), digits,
                               item[2])],
           FALSE)

promote_integral_item(p, digits, item) ==
    Result([p EXCEPT
              !.rational_solver =
                  promote_into(@, Some(RatFromInt(item[1])), digits, item[2]),
              !.rational_quadratic_solver =
                  promote_into(@, Some(Quadratic_from_int(item[1])), digits,
                               item[2])],
           FALSE)

\* body of the loop over the new numbers of the integral solver
promote_integral_at(p, digits, k) ==
    promote_integral_item(p, digits, new_number(p.integral_solver, k))

\* The rational stage offering its new numbers to the integral solver alone.
promote_rational_to_integral_only(p, digits, item) ==
    Result([p EXCEPT
              !.integral_solver =
                  promote_into(@, to_int("Rational", item[1]), digits, item[2])],
           FALSE)

promote_rational_item(p, digits, item) ==
    Result([p EXCEPT
              !.integral_solver =
                  promote_into(@, to_int("Rational", item[1]), digits, item[2]),
              !.rational_quadratic_solver =
                  promote_into(@, Some(Quadratic_from_rational(item[1])),
                               digits, item[2])],
           FALSE)

\* body of the loop over the new numbers of the rational solver
promote_rational_at(p, digits, k) ==
    promote_rational_item(p, digits, new_number(p.rational_solver, k))

promote_quadratic_item(p, digits, item) ==
    Result([p EXCEPT
              !.integral_solver =
                  promote_into(@, Quadratic_to_int(item[1]), digits, item[2]),
              !.rational_solver =
                  promote_into(@,
                      IF Quadratic_is_rational(item[1])
                      THEN Some(item[1].rational_part)
                      ELSE None,
                      digits, item[2])],
           FALSE)

\* body of the loop over the new numbers of the rational quadratic solver
promote_quadratic_at(p, digits, k) ==
    promote_quadratic_item(p, digits, new_number(p.rational_quadratic_solver, k))

\* The loop over the new numbers of the solver a stage searched, and what
\* follows it: clear_new_numbers and the next stage.
promote(p, digits, from) ==
    CASE from = "Integral" ->
           ForLoop(LAMBDA q, k : promote_integral_at(q, digits, k),
                   p, 0, Len(p.integral_solver.new_numbers)).s
      [] from = "Rational" ->
           ForLoop(LAMBDA q, k : promote_rational_at(q, digits, k),
                   p, 0, Len(p.rational_solver.new_numbers)).s
      [] from = "RationalQuadratic" ->
           ForLoop(LAMBDA q, k : promote_quadratic_at(q, digits, k),
                   p, 0, Len(p.rational_quadratic_solver.new_numbers)).s

\* An assignment to search_state of the driver, entered in the history:
\* the stage, the digits of the search call, depth_searched, the
\* depth_searched of the three progressive solvers and the number of their
\* new numbers, as they are then.
set_stage(p, stage, digits) ==
    [p EXCEPT !.search_state = stage,
              !.stages = Append(@, <<stage, digits, p.depth_searched,
                                     p.integral_solver.depth_searched,
                                     p.rational_solver.depth_searched,
                                     p.rational_quadratic_solver.depth_searched,
                                     Len(p.integral_solver.new_numbers)
                                         + Len(p.rational_solver.new_numbers)
                                         + Len(p.rational_quadratic_solver.new_numbers)>>)]

\* What a stage does after its solve returned: return true on a solution,
\* else promote the new numbers, clear them and move to the stage next.
stage_solved(p, found, digits, from, next) ==
    IF found
    THEN Result(p, TRUE)
    ELSE Result(set_stage(ProgressiveSolver_clear_new_numbers(
                              promote(p, digits, from)),
                          next, digits),
                FALSE)

\* The start of a search call that begins with the integral stage whatever
\* search_state records.
search_stage_None_restarting(p, digits) == set_stage(p, "Integral", digits)

search_stage_None(p, digits) ==
    IF p.search_state = "None" THEN set_stage(p, "Integral", digits) ELSE p

solved_Integral(p, r, digits) ==
    stage_solved([p EXCEPT !.integral_solver = r.s], IsSome(r.result), digits,
                 "Integral", "FullIntegral")

search_stage_Integral(r, digits) ==
    IF ~r.found /\ r.s.search_state = "Integral"
    THEN solved_Integral(r.s, solve(r.s.integral_solver, r.s.target, digits),
                         digits)
    ELSE r

\* The fields of a solver that a caller can tell apart.
Fields(s) ==
    [states |-> s.states, states_by_depth |-> s.states_by_depth,
     depth_searched |-> s.depth_searched, search_state |-> s.search_state,
     new_numbers |-> s.new_numbers, progressive |-> s.progressive]

\* The full-integer stage that went from the driver p to the driver q,
\* entered in the history: digits and max_depth, the integral solver and the
\* full integral solver before the stage and after it.
look_ahead(p, q, digits) ==
    [q EXCEPT !.look_aheads =
        Append(@, [digits |-> digits, max_depth |-> p.max_depth,
                   integral_before |-> Fields(p.integral_solver),
                   integral_after |-> Fields(q.integral_solver),
                   full_before |-> Fields(p.full_integral_solver),
                   full_after |-> Fields(q.full_integral_solver)])]

solved_FullIntegral(p, r, digits) ==
    Result(look_ahead(p, set_stage([p EXCEPT !.full_integral_solver = r.s],
                                   "Rational", digits),
                      digits),
           IsSome(r.result))

\* The full-integer stage cloning at every depth from 3 on.
search_stage_FullIntegral_at_every_depth(r, digits) ==
    IF ~r.found /\ r.s.search_state = "FullIntegral"
    THEN IF digits >= 3
         THEN solved_FullIntegral(r.s,
                  solve(clone_non_progressive_from(r.s.integral_solver),
                        r.s.target, Unwrap(r.s.max_depth)), digits)
         ELSE Result(look_ahead(r.s, set_stage(r.s, "Rational", digits), digits),
                     FALSE)
    ELSE r

search_stage_FullIntegral(r, digits) ==
    IF ~r.found /\ r.s.search_state = "FullIntegral"
    THEN IF digits >= 3
            /\ (r.s.max_depth = None \/ digits < Unwrap(r.s.max_depth))
         THEN solved_FullIntegral(r.s,
                  solve(clone_non_progressive_from(r.s.integral_solver),
                        r.s.target, Unwrap(r.s.max_depth)), digits)
         ELSE Result(look_ahead(r.s, set_stage(r.s, "Rational", digits), digits),
                     FALSE)
    ELSE r

solved_Rational(p, r, digits) ==
    stage_solved([p EXCEPT !.rational_solver = r.s], IsSome(r.result), digits,
                 "Rational", "RationalQuadratic")

search_stage_Rational(r, digits) ==
    IF ~r.found /\ r.s.search_state = "Rational"
    THEN solved_Rational(r.s,
             solve(r.s.rational_solver, RatFromInt(r.s.target), digits), digits)
    ELSE r

solved_RationalQuadratic(p, r, digits) ==
    stage_solved([p EXCEPT !.rational_quadratic_solver = r.s],
                 IsSome(r.result), digits, "RationalQuadratic", "Finished")

search_stage_RationalQuadratic(r, digits) ==
    IF ~r.found /\ r.s.search_state = "RationalQuadratic"
    THEN solved_RationalQuadratic(r.s,
             solve(r.s.rational_quadratic_solver,
                   Quadratic_from_int(r.s.target), digits), digits)
    ELSE r

search_stage_Finished(r, digits) ==
    IF r.found
    THEN r
    ELSE Result(set_stage([r.s EXCEPT !.depth_searched = digits], "None",
                          digits),
                FALSE)

ProgressiveSolver_search(p, digits) ==
    search_stage_Finished(
        search_stage_RationalQuadratic(
            search_stage_Rational(
                search_stage_FullIntegral(
                    search_stage_Integral(Result(search_stage_None(p, digits), FALSE),
                                          digits),
                    digits),
                digits),
            digits),
        digits)

\* The outcome of solve_next: the driver afterwards and the returned Option.
Yielded(p, result) == [s |-> p, result |-> result]

\* solve_next without the lowering of max_depth after a solution.
solve_next_solution_keeping_max_depth(p, solution) == Yielded(p, solution)

\* solve_next lowering max_depth to the depth of the solution itself.
solve_next_solution_lowering_to_solution(p, solution) ==
    Yielded([p EXCEPT !.max_depth = Some(Unwrap(solution)[2])], solution)

\* What solve_next does with the solution of a search that returned true.
solve_next_solution(p, solution) ==
    IF IsSome(solution)
    THEN Yielded([p EXCEPT !.max_depth = Some(Unwrap(solution)[2] - 1)],
                 solution)
    ELSE Yielded(p, None)

RECURSIVE solve_next_loop(_, _, _)
RECURSIVE solve_next_searched(_, _, _)

\* the body of the loop after search(digits) returned r
solve_next_searched(r, digits, max_depth) ==
    IF r.found
    THEN solve_next_solution(r.s,
             ProgressiveSolver_get_solution(r.s, r.s.target))
    ELSE solve_next_loop(r.s, digits + 1, max_depth)

\* for digits in from..=max_depth of solve_next
solve_next_loop(p, digits, max_depth) ==
    IF digits > max_depth
    THEN Yielded(p, None)
    ELSE solve_next_searched(ProgressiveSolver_search(p, digits), digits,
                             max_depth)

solve_next(p) == solve_next_loop(p, p.depth_searched + 1, Unwrap(p.max_depth))

\* ------------------------------------------------------------------------
\* The callers.
\*
\* A run is either one solver of some type, constructed for some n and
\* handed up to MaxCalls solve calls with targets and depth limits of the
\* caller's choosing, or one ProgressiveSolver, constructed for some n,
\* target, max_depth and limits (wasm.rs takes each domain's limits from
\* the caller's configuration) and asked for its next solution up to
\* MaxNexts times.
\* ------------------------------------------------------------------------

VARIABLES
    solver,       \* the solver of a run of the first kind, None otherwise
    ret,          \* the last solve call: its arguments and what it returned
    count,        \* the number of solve calls made
    progressive,  \* the ProgressiveSolver of a run of the second kind
    given,        \* the max_depth it was constructed with
    nexts,        \* what the next() calls on it returned, in order
    calc          \* an operation applied to values on their own, None otherwise

vars == <<solver, ret, count, progressive, given, nexts, calc>>

\* The number of solve calls made on one solver.
MaxCalls == 2

\* The number of next() calls made on one ProgressiveSolver.
MaxNexts == MaxDepth + 1

\* The largest target a ProgressiveSolver is constructed for.
MaxTarget == 11

\* Limits.max_quadratic_power of the modelled RationalQuadratic solver.
MaxQuadraticPower == 1

SolverTypes == {"i64", "Rational", "RationalQuadratic", "RationalSolver"}

\* The limits the solvers are constructed with (main.rs gives each domain
\* its own).
LimitsOf(type) ==
    IF type = "RationalQuadratic"
    THEN Limits(MaxDigits + 5, MaxFactorial, MaxQuadraticPower)
    ELSE Limits(MaxDigits, MaxFactorial, 0)

Construct(type, n) ==
    IF type = "RationalSolver"
    THEN RationalSolver_new(n, LimitsOf(type))
    ELSE new(type, n, LimitsOf(type))

\* The depth limits the callers pass.
DepthsOf(type) ==
    CASE type = "i64" -> {2, MaxDepth}
      [] type = "RationalQuadratic" -> {MaxDepth - 2}
      [] OTHER -> {2, MaxDepth - 1}

\* The targets the callers ask for: integers within and beyond the range of
\* the tables, and the reciprocal of one.
TargetsOf(type) ==
    LET ints == {from_int(s_kind, t) : s_kind \in {IF type = "RationalSolver"
                                                   THEN "Rational" ELSE type},
                                       t \in {1, 10, 729}}
    IN  CASE type = "i64" -> ints
          [] type = "RationalQuadratic" ->
               ints \cup {Quadratic_from_rational(<<1, 729>>)}
          [] OTHER -> ints \cup {<<1, 729>>}

TypeOf(s) == IF s.struct = "RationalSolver" THEN "RationalSolver" ELSE s.kind

NoCall ==
    [called |-> FALSE, target |-> 0, max_depth |-> 0, stored |-> None,
     result |-> None, searches |-> 0]

InitSolver ==
    /\ \E type \in SolverTypes, n \in 1..MaxN : solver = Construct(type, n)
    /\ ret = NoCall
    /\ count = 0
    /\ progressive = None
    /\ given = 0
    /\ nexts = <<>>
    /\ calc = None

\* The limits of a driver are its caller's.  The drivers main.rs constructs
\* give the rational solver a larger or an equal range and, as the built-in
\* limits 20, 14 and 9 do, the narrower solvers a smaller max_factorial
\* (narrowing) or the same; a configuration of wasm.rs may as well give the
\* integral solver the smaller max_factorial (widening).
InitProgressive ==
    /\ solver = None
    /\ ret = NoCall
    /\ count = 0
    /\ \E n \in 1..MaxN, target \in 1..MaxTarget, max_depth \in 1..MaxDepth,
          rational_digits \in {MaxDigits, MaxDigits + 1},
          factorials \in {<<0, 0>>, <<0, 1>>, <<1, 0>>} :
          LET widening == factorials[1]
              narrowing == factorials[2]
          IN  /\ progressive =
                    ProgressiveSolver_new(n, target, Some(max_depth),
                        Limits(MaxDigits, MaxFactorial - 2 * widening, 0),
                        Limits(rational_digits, MaxFactorial - narrowing, 0),
                        Limits(MaxDigits, MaxFactorial - 2 * narrowing,
                               MaxQuadraticPower))
              /\ given = max_depth
    /\ nexts = <<>>
    /\ calc = None

Init == InitSolver \/ InitProgressive

\* The solve call returned r: the solver and the record of the call.
Returned(r, target, max_depth) ==
    /\ solver' = r.s
    /\ ret' = [called |-> TRUE, target |-> target, max_depth |-> max_depth,
               stored |-> get_solution(solver, target),
               result |-> r.result, searches |-> r.searches]

\* solve(target, max_depth) on the solver, by the solve of its type.
Solve(target, max_depth) ==
    /\ solver # None
    /\ count < MaxCalls
    /\ Returned(IF solver.struct = "RationalSolver"
                THEN RationalSolver_solve(solver, target, max_depth)
                ELSE solve(solver, target, max_depth),
                target, max_depth)
    /\ count' = count + 1
    /\ UNCHANGED <<progressive, given, nexts, calc>>

SolveCall ==
    /\ solver # None
    /\ \E target \in TargetsOf(TypeOf(solver)),
          max_depth \in DepthsOf(TypeOf(solver)) : Solve(target, max_depth)

\* next() returned r: the driver and what it returned.
YieldedNext(r) ==
    /\ progressive' = r.s
    /\ nexts' = Append(nexts, r.result)

\* SolverIterator::next on the ProgressiveSolver.
SolveNext ==
    /\ progressive # None
    /\ Len(nexts) < MaxNexts
    /\ YieldedNext(solve_next(progressive))
    /\ UNCHANGED <<solver, ret, count, given, calc>>

Next == SolveCall \/ SolveNext

Spec == Init /\ [][Next]_vars

\* ------------------------------------------------------------------------
\* The older Solver trait (solver/base.rs) and QuadraticSolver, which
\* implements it (solver/quadratic.rs).  The trait has its own gate, check,
\* which sqrt and factorial call in their turn.
\* ------------------------------------------------------------------------

QuadraticSolver_new(n, limits) ==
    [new("RationalQuadratic", n, limits) EXCEPT !.struct = "QuadraticSolver"]

QuadraticSolver_range_check(s, x) ==
    /\ x.rational_part[1] <= IPow(2, s.limits.max_digits)
    /\ x.rational_part[2] <= IPow(2, s.limits.max_digits)

QuadraticSolver_already_searched(s, x) == contains_key(s, x)

\* (states_by_depth[digits] is there: search resizes before it inserts.)
QuadraticSolver_insert(s, x, digits, expression) ==
    Result([s EXCEPT
              !.states = (x :> <<expression, digits>>) @@ s.states,
              !.states_by_depth = [@ EXCEPT ![digits + 1] = Append(@, x)]],
           x = s.target)

\* The trait declares integer_check: whether x is an integer.
integer_check(s, x) == IsSome(Quadratic_to_int(x))

RECURSIVE base_check(_, _, _, _)

QuadraticSolver_sqrt_result(s, result, x) ==
    IF IsSome(result)
    THEN base_check(s, Unwrap(result), x.digits, from_sqrt(x.expression, 1))
    ELSE Result(s, FALSE)

QuadraticSolver_sqrt(s, x) ==
    IF x.number.quadratic_power < s.limits.max_quadratic_power
    THEN QuadraticSolver_sqrt_result(s, Quadratic_try_sqrt(x.number), x)
    ELSE Result(s, FALSE)

base_factorial_of(s, n, x) ==
    IF IsSome(n) /\ Unwrap(n) < s.limits.max_factorial
    THEN base_check(s, Quadratic_from_int(factorial(Unwrap(n))), x.digits,
                    Factorial(x.expression))
    ELSE Result(s, FALSE)

base_factorial(s, x) == base_factorial_of(s, Quadratic_to_int(x.number), x)

\* if self.sqrt(&state) { true } else if self.integer_check(x)
\* { self.factorial(&state) } else { false }
base_check_after_sqrt(r, state) ==
    IF r.found
    THEN r
    ELSE IF integer_check(r.s, state.number)
    THEN base_factorial(r.s, state)
    ELSE Result(r.s, FALSE)

\* if self.insert(..) { return true; }
base_check_after_insert(r, state) ==
    IF r.found
    THEN r
    ELSE base_check_after_sqrt(QuadraticSolver_sqrt(r.s, state), state)

base_check(s, x, digits, expression) ==
    IF ~QuadraticSolver_range_check(s, x) \/ QuadraticSolver_already_searched(s, x)
    THEN Result(s, FALSE)
    ELSE base_check_after_insert(
             QuadraticSolver_insert(s, x, digits, expression),
             State(x, digits, expression))

\* ------------------------------------------------------------------------
\* Rational (rational.rs): the crate's own rational, a pair of i64
\* <<numerator, denominator>>.
\*
\* Its arithmetic is that of the machine word: WordBits bits in two's
\* complement.  An overflowing + or * panics in a build with overflow checks
\* and wraps around in a build without them; the argument build of an
\* operation is "checked" or "wrapping".  The outcome of an operation is
\* Ok(value) or Panic.
\* ------------------------------------------------------------------------

\* i64 / and %, which round toward zero (y is not 0)
TruncDiv(x, y) ==
    IF (x < 0) = (y < 0) THEN Abs(x) \div Abs(y) ELSE -(Abs(x) \div Abs(y))

TruncRem(x, y) == x - y * TruncDiv(x, y)

Rational_zero == <<0, 1>>

\* while x != 0 { (x, y) = (y % x, x) }; y
RECURSIVE Rational_gcd_loop(_, _)
Rational_gcd_loop(x, y) ==
    IF x = 0 THEN y ELSE Rational_gcd_loop(TruncRem(y, x), x)

Rational_gcd_ordered(x, y) ==
    IF x < y THEN Rational_gcd_loop(y, x) ELSE Rational_gcd_loop(x, y)

Rational_gcd(x, y) == Rational_gcd_ordered(wrapping(Abs(x)), wrapping(Abs(y)))

Rational_reduce_by(r, g) ==
    IF TruncDiv(r[2], g) > 0
    THEN <<TruncDiv(r[1], g), TruncDiv(r[2], g)>>
    ELSE <<wrapping(-TruncDiv(r[1], g)), wrapping(-TruncDiv(r[2], g))>>

Rational_reduce(r) ==
    IF r[1] = 0 THEN Rational_zero ELSE Rational_reduce_by(r, Rational_gcd(r[1], r[2]))

Rational_new(numerator, denominator) ==
    Rational_reduce(<<numerator, denominator>>)

Rational_neg(a) == <<wrapping(-a[1]), a[2]>>

\* Rational::new(numerator, denominator) of a numerator p + q and a
\* denominator d computed in the machine word, in the build given.
Rational_new_checked(p, q, d, build) ==
    IF build = "checked" /\ ~(Fits(p) /\ Fits(q) /\ Fits(p + q) /\ Fits(d))
    THEN Panic
    ELSE Ok(Rational_new(wrapping(p + q), wrapping(d)))

\* self.numerator * rhs.denominator + self.denominator * rhs.numerator over
\* self.denominator * rhs.denominator
Rational_add(a, rhs, build) ==
    Rational_new_checked(a[1] * rhs[2], a[2] * rhs[1], a[2] * rhs[2], build)

\* self.numerator * rhs.denominator + self.denominator * rhs.numerator over
\* self.denominator * rhs.denominator, as the source has it
Rational_sub(a, rhs, build) ==
    Rational_new_checked(a[1] * rhs[2], a[2] * rhs[1], a[2] * rhs[2], build)

Rational_mul(a, rhs, build) ==
    Rational_new_checked(a[1] * rhs[1], 0, a[2] * rhs[2], build)

Rational_div(a, rhs, build) ==
    Rational_new_checked(a[1] * rhs[2], 0, a[2] * rhs[1], build)

Rational_apply(op, a, rhs, build) ==
    CASE op = "add" -> Rational_add(a, rhs, build)
      [] op = "sub" -> Rational_sub(a, rhs, build)
      [] op = "mul" -> Rational_mul(a, rhs, build)
      [] op = "div" -> Rational_div(a, rhs, build)

\* ------------------------------------------------------------------------
\* Operations applied to values on their own.
\*
\* A run of this kind starts from a request, an operation and its operands,
\* and applies the operation.
\* ------------------------------------------------------------------------

\* max_digits of a rational solver on the machine word: half the word, as 32
\* is of 64.
RationalDigits == WordBits \div 2

\* Numerators and denominators up to the range bound 2^RationalDigits.
RationalNumerators == {-3, -2, -1, 0, 1, 2, 3, 5, 15, 16}

RationalDenominators == {1, 2, 3, 5, 15, 16}

Rationals ==
    {Rational_new(p, q) : p \in RationalNumerators, q \in RationalDenominators}

RationalRequest(op, a, b, build) ==
    [type |-> "Rational", op |-> op, a |-> a, b |-> b, build |-> build,
     out |-> None]

RationalRequests ==
    {RationalRequest(op, a, b, build) :
        op \in {"add", "sub", "mul", "div"}, a \in Rationals,
        b \in Rationals \ {Rational_zero}, build \in Builds}

\* The largest level and the largest max_digits concat is applied with.
MaxConcatLevel == 4

MaxConcatDigits == 12

ConcatRequest(kind, n, max_digits, digits) ==
    [type |-> "Concat", kind |-> kind, n |-> n, max_digits |-> max_digits,
     digits |-> digits, out |-> None]

ConcatRequests ==
    {ConcatRequest(kind, n, max_digits, digits) :
        kind \in {"i64", "Rational"}, n \in 1..9,
        max_digits \in 1..MaxConcatDigits, digits \in 1..MaxConcatLevel}

\* Canonical radical values: rational parts with the primes 2 and 3 in the
\* numerator and the denominator, and the quadratic parts of the powers up
\* to 2.
QuadraticRationalParts == {<<1, 1>>, <<2, 1>>, <<1, 2>>, <<3, 2>>, <<6, 1>>, <<-4, 3>>}

QuadraticParts ==
    {<<NoQuadraticPart, 0>>,
     <<<<1, 0, 0, 0>>, 1>>, <<<<0, 1, 0, 0>>, 1>>, <<<<1, 1, 0, 0>>, 1>>,
     <<<<0, 0, 1, 1>>, 1>>,
     <<<<1, 0, 0, 0>>, 2>>, <<<<3, 0, 0, 0>>, 2>>, <<<<2, 1, 0, 0>>, 2>>,
     <<<<1, 2, 0, 0>>, 2>>, <<<<3, 3, 0, 0>>, 2>>, <<<<1, 0, 2, 3>>, 2>>}

Quadratics ==
    {Quadratic(r, q[1], q[2]) : r \in QuadraticRationalParts, q \in QuadraticParts}

\* The largest exponent power is applied with.
MaxPowerExponent == 4

\* rhs is the right-hand side of multiply and divide, power the exponent of
\* power; the other operations do not read them.
QuadraticRequest(op, x, rhs, power) ==
    [type |-> "Quadratic", op |-> op, x |-> x, rhs |-> rhs, power |-> power,
     out |-> None]

QuadraticRequests ==
    {QuadraticRequest(op, x, rhs, 0) :
        op \in {"multiply", "divide"}, x \in Quadratics, rhs \in Quadratics}
    \cup {QuadraticRequest(op, x, x, 0) :
        op \in {"inverse", "try_sqrt"}, x \in Quadratics}
    \cup {QuadraticRequest("power", x, x, power) :
        x \in Quadratics, power \in 0..MaxPowerExponent}

\* The limits of a solve on its own.  The built-in integer limits are 48 and
\* 20, beyond the 32-bit integers of the checker.  With n = 1 the levels up
\* to 3 hold under the built-in limits the values 1, 2, 3, 6, 10, 11, 12,
\* 111, 720, 10!, 11!, 11! - 1, 11! + 1 and 12!; all but 12! are within
\* these limits, and 12! has no root and no factorial.  A product of a level
\* up to 4 is below 2^(WordBits - 1) or has the factor 1.
SolveDigits == 29

SolveFactorial == 12

\* The largest max_depth of a solve on its own.
MaxSolveDepth == 7

SolveRequest(n, target, max_depth) ==
    [type |-> "Solve", n |-> n, target |-> target, max_depth |-> max_depth,
     out |-> None]

SolveRequests ==
    {SolveRequest(1, target, max_depth) :
        target \in {6, 7}, max_depth \in 1..MaxSolveDepth}

\* The values handed to a gate on its own, and the targets of its solver.
MaxGateValue == 9

\* gate: "try_insert" of Solver<RationalQuadratic> or "check" of the older
\* trait; the solver is at level 1 with an empty table.
GateRequest(by, n, target, value) ==
    [type |-> "Gate", gate |-> by, n |-> n, target |-> target, value |-> value,
     out |-> None]

GateRequests ==
    {GateRequest(by, n, target, value) :
        by \in {"try_insert", "check"}, n \in 1..MaxN,
        target \in 1..MaxGateValue, value \in 1..MaxGateValue}

\* The largest max_depth of a search that fills a table on its own.
MaxTableDepth == 5

\* A target beyond the range of the limits, which no search finds: the
\* search fills every level up to max_depth.
BeyondRange(max_digits) == IPow(2, max_digits) + 1

TableRequest(kind, n, max_depth) ==
    [type |-> "Table", kind |-> kind, n |-> n, max_depth |-> max_depth,
     out |-> None]

TableRequests ==
    {TableRequest(kind, n, max_depth) :
        kind \in {"i64", "Rational"}, n \in 1..MaxN,
        max_depth \in 1..MaxTableDepth}

\* The largest max_depth of a search at the limit of the machine word.
MaxWordDepth == 4

\* The digits of the searches at the limit of the machine word.
WordDigits == {3, 4}

\* A search of the rationals whose max_digits is half the machine word, as
\* max_digits = 32 is of 64 bits, in a build.
WordRequest(n, max_depth, build) ==
    [type |-> "Word", n |-> n, max_depth |-> max_depth, build |-> build,
     out |-> None]

WordRequests ==
    {WordRequest(n, max_depth, build) :
        n \in WordDigits, max_depth \in 1..MaxWordDepth, build \in Builds}

CalcRequests ==
    RationalRequests \cup ConcatRequests \cup QuadraticRequests
        \cup SolveRequests \cup GateRequests \cup TableRequests
        \cup WordRequests

CalcInit ==
    /\ solver = None
    /\ ret = NoCall
    /\ count = 0
    /\ progressive = None
    /\ given = 0
    /\ nexts = <<>>
    /\ calc \in CalcRequests

\* The operation of a request on Rationals is applied.
ApplyRational ==
    /\ calc # None
    /\ calc.type = "Rational"
    /\ calc.out = None
    /\ calc' = [calc EXCEPT !.out =
                   Some(Rational_apply(calc.op, calc.a, calc.b, calc.build))]
    /\ UNCHANGED <<solver, ret, count, progressive, given, nexts>>

\* concat(digits) on a newly constructed solver: the solver afterwards.
ApplyConcat ==
    /\ calc # None
    /\ calc.type = "Concat"
    /\ calc.out = None
    /\ calc' = [calc EXCEPT !.out =
                   Some(concat(new(calc.kind, calc.n,
                                   Limits(calc.max_digits, MaxFactorial, 0)),
                               calc.digits).s)]
    /\ UNCHANGED <<solver, ret, count, progressive, given, nexts>>

\* The operation of a request on radical values: Some(value), or None where
\* try_sqrt has no root.
Quadratic_apply(op, x, rhs, power) ==
    CASE op = "multiply" -> Some(Quadratic_multiply(x, rhs))
      [] op = "divide" -> Some(Quadratic_divide(x, rhs))
      [] op = "inverse" -> Some(Quadratic_inverse(x))
      [] op = "power" -> Some(Quadratic_power(x, power))
      [] op = "try_sqrt" -> Quadratic_try_sqrt(x)

ApplyQuadratic ==
    /\ calc # None
    /\ calc.type = "Quadratic"
    /\ calc.out = None
    /\ calc' = [calc EXCEPT !.out =
                   Some(Quadratic_apply(calc.op, calc.x, calc.rhs, calc.power))]
    /\ UNCHANGED <<solver, ret, count, progressive, given, nexts>>

\* solve(target, max_depth) on a newly constructed integer solver: the
\* returned Option.
ApplySolve ==
    /\ calc # None
    /\ calc.type = "Solve"
    /\ calc.out = None
    /\ calc' = [calc EXCEPT !.out =
                   Some(solve(new("i64", calc.n,
                                  Limits(SolveDigits, SolveFactorial, 0)),
                              calc.target, calc.max_depth).result)]
    /\ UNCHANGED <<solver, ret, count, progressive, given, nexts>>

\* The solver a gate is applied to: constructed, given its target, and with
\* states_by_depth resized for level 1 as search does first.
GateSolver(s, target) ==
    [s EXCEPT !.target = Quadratic_from_int(target),
              !.states_by_depth = Resize(@, 2)]

\* The gate on the value at level 1: the solver afterwards.
ApplyGate ==
    /\ calc # None
    /\ calc.type = "Gate"
    /\ calc.out = None
    /\ calc' = [calc EXCEPT !.out =
                   Some(IF calc.gate = "check"
                        THEN base_check(
                                 GateSolver(QuadraticSolver_new(calc.n,
                                                LimitsOf("RationalQuadratic")),
                                            calc.target),
                                 Quadratic_from_int(calc.value), 1,
                                 from_number(calc.value)).s
                        ELSE try_insert(
                                 GateSolver(new("RationalQuadratic", calc.n,
                                                LimitsOf("RationalQuadratic")),
                                            calc.target),
                                 Quadratic_from_int(calc.value), 1,
                                 from_number(calc.value)).s)]
    /\ UNCHANGED <<solver, ret, count, progressive, given, nexts>>

\* solve(target, max_depth) on a newly constructed solver with a target
\* beyond its range: the solver afterwards, its table filled up to max_depth.
ApplyTable ==
    /\ calc # None
    /\ calc.type = "Table"
    /\ calc.out = None
    /\ calc' = [calc EXCEPT !.out =
                   Some(solve(new(calc.kind, calc.n,
                                  Limits(MaxDigits, MaxFactorial, 0)),
                              from_int(calc.kind, BeyondRange(MaxDigits)),
                              calc.max_depth).s)]
    /\ UNCHANGED <<solver, ret, count, progressive, given, nexts>>

\* The outcome of a solve: the solver afterwards, or Panic.
SolverOrPanic(s) == IF s.panicked THEN Panic ELSE Ok(s)

\* The table holds a value that is not positive.
HoldsNonPositive(s) == \E x \in DOMAIN s.states : x[1] <= 0

\* solve(target, max_depth) with a target beyond the range, level by level
\* (solve searches the levels depth_searched + 1 ..= max_depth in turn).  The
\* search is followed to the end of the level in which a value that is not
\* positive is stored: what the program computes from such a value is not
\* modelled.
RECURSIVE solve_levels(_, _, _)
solve_levels(s, target, max_depth) ==
    IF s.depth_searched >= max_depth \/ s.panicked \/ HoldsNonPositive(s)
    THEN s
    ELSE solve_levels(solve(s, target, s.depth_searched + 1).s, target,
                      max_depth)

\* solve(target, max_depth) on a newly constructed Solver<Rational> whose
\* max_digits is half the machine word, with a target beyond its range.
ApplyWord ==
    /\ calc # None
    /\ calc.type = "Word"
    /\ calc.out = None
    /\ calc' = [calc EXCEPT !.out =
                   Some(SolverOrPanic(
                       solve_levels(
                           new_in(calc.build, "Rational", calc.n,
                                  Limits(RationalDigits, MaxFactorial, 0)),
                           from_int("Rational", BeyondRange(RationalDigits)),
                           calc.max_depth)))]
    /\ UNCHANGED <<solver, ret, count, progressive, given, nexts>>

CalcNext ==
    \/ ApplyRational
    \/ ApplyConcat
    \/ ApplyQuadratic
    \/ ApplySolve
    \/ ApplyGate
    \/ ApplyTable
    \/ ApplyWord

CalcSpec == CalcInit /\ [][CalcNext]_vars

\* ------------------------------------------------------------------------
\* Properties
\* ------------------------------------------------------------------------

\* The solvers whose tables grow through solve and try_insert.
Solvers ==
    IF solver # None
    THEN {solver}
    ELSE {progressive.integral_solver, progressive.rational_solver,
          progressive.rational_quadratic_solver}

\* All solvers of the state, the look-ahead copy included.
AllSolvers ==
    IF solver # None
    THEN {solver}
    ELSE Solvers \cup {progressive.full_integral_solver}

Last(seq) == seq[Len(seq)]

\* The depths of the solutions the next() calls returned, in order.
YieldedDepths ==
    LET yields == SelectSeq(nexts, LAMBDA r : r # None)
    IN  [k \in 1..Len(yields) |-> Unwrap(yields[k])[2]]

\* C1: the depths of the solutions one ProgressiveSolver returns from
\* successive next() calls are strictly decreasing.
C1_DepthsStrictlyDecreasing ==
    \A i, j \in DOMAIN YieldedDepths :
        i < j => YieldedDepths[i] > YieldedDepths[j]

\* A ProgressiveSolver has returned two solutions.
C1_TwoSolutions == Len(YieldedDepths) >= 2

\* C2: Solver::solve returns Some((e, d)) only with d <= max_depth and equal
\* to the table entry of the target; a target already stored with depth
\* <= max_depth is returned without running a search level; a target stored
\* with depth > max_depth gives None.
C2_SolveContract ==
    (solver # None /\ solver.struct = "Solver" /\ ret.called) =>
        /\ ret.result # None =>
              /\ Unwrap(ret.result)[2] <= ret.max_depth
              /\ ret.result = get_solution(solver, ret.target)
        /\ (ret.stored # None /\ Unwrap(ret.stored)[2] <= ret.max_depth) =>
              /\ ret.result = ret.stored
              /\ ret.searches = 0
        /\ (ret.stored # None /\ Unwrap(ret.stored)[2] > ret.max_depth) =>
              ret.result = None

\* solve was called for a target stored deeper than max_depth and returned
\* None.
C2_StoredTooDeep ==
    /\ solver # None
    /\ solver.struct = "Solver"
    /\ ret.called
    /\ ret.stored # None
    /\ Unwrap(ret.stored)[2] > ret.max_depth
    /\ ret.result = None

\* The next() call number k returned None.
ReturnedNone(k) == k \in DOMAIN nexts /\ nexts[k] = None

\* C4: with a finite max_depth M at most M next() calls return a solution
\* and call M + 1 at the latest returns None; next() returns None once
\* depth_searched >= the current max_depth; after a None every later next()
\* returns None.
C4_Terminates ==
    /\ [](progressive # None =>
            /\ Len(YieldedDepths) <= given
            /\ Len(nexts) > given => \E k \in 1..(given + 1) : ReturnedNone(k))
    /\ [][(progressive # None /\ nexts' # nexts) =>
            /\ progressive.depth_searched >= Unwrap(progressive.max_depth) =>
                  Last(nexts') = None
            /\ (nexts # <<>> /\ Last(nexts) = None) => Last(nexts') = None]_vars

\* next() was called again after it had returned a solution and then None.
C4_CalledAfterNone ==
    /\ Len(nexts) >= 3
    /\ nexts[1] # None
    /\ nexts[Len(nexts) - 1] = None
    /\ nexts[Len(nexts)] = None

\* Every entry of the table of a is an entry of the table of b.
TableKept(a, b) ==
    \A x \in DOMAIN a.states :
        x \in DOMAIN b.states /\ b.states[x] = a.states[x]

\* C5: across solve calls with arbitrary targets and max_depths and across
\* promotions by try_insert, an entry once stored is never removed and its
\* expression and depth never change.
C5_EntriesNeverChange ==
    [][/\ solver # None => TableKept(solver, solver')
       /\ progressive # None =>
            /\ TableKept(progressive.integral_solver,
                         progressive'.integral_solver)
            /\ TableKept(progressive.rational_solver,
                         progressive'.rational_solver)
            /\ TableKept(progressive.rational_quadratic_solver,
                         progressive'.rational_quadratic_solver)]_vars

\* A second solve call, for another target, ran search levels on a table
\* that had entries.
C5_SecondSolveSearched ==
    /\ solver # None
    /\ count >= 2
    /\ ret.searches > 0
    /\ Cardinality(DOMAIN solver.states) > 1

\* The positions <<d, i>> of by_depth that hold x.
PositionsOf(s, x) ==
    {pos \in UNION {{<<d, i>> : i \in 1..Len(s.states_by_depth[d + 1])} :
                      d \in 0..(Len(s.states_by_depth) - 1)} :
        s.states_by_depth[pos[1] + 1][pos[2]] = x}

\* C9: by_depth[d] lists exactly the values whose stored depth is d, no
\* value appears twice in by_depth, and the values of by_depth are the keys
\* of the table.
C9_ByDepthMatchesTable ==
    \A s \in AllSolvers :
        /\ \A d \in 0..(Len(s.states_by_depth) - 1) :
              \A i \in 1..Len(s.states_by_depth[d + 1]) :
                  /\ s.states_by_depth[d + 1][i] \in DOMAIN s.states
                  /\ s.states[s.states_by_depth[d + 1][i]][2] = d
        /\ \A x \in DOMAIN s.states :
              /\ Cardinality(PositionsOf(s, x)) = 1
              /\ \E pos \in PositionsOf(s, x) : pos[1] = s.states[x][2]

\* The rational solver holds a value promoted from the integers at a level
\* and has searched that level itself.
C9_SearchedAfterPromotion ==
    /\ progressive # None
    /\ \E x \in DOMAIN progressive.rational_solver.states :
          /\ x[2] = 1
          /\ x[1] \in DOMAIN progressive.integral_solver.states
          /\ progressive.rational_solver.states[x] =
                progressive.integral_solver.states[x[1]]
          /\ progressive.rational_solver.states[x][2] >= 2
          /\ progressive.rational_solver.states[x][2] <=
                progressive.rational_solver.depth_searched

\* The range bound of the domain of s.
WithinRange(s, x) ==
    CASE s.kind = "i64" -> Abs(x) <= 2 ^ s.limits.max_digits
      [] s.kind = "Rational" ->
           /\ Abs(x[1]) <= 2 ^ s.limits.max_digits
           /\ x[2] <= 2 ^ s.limits.max_digits
      [] s.kind = "RationalQuadratic" ->
           /\ Abs(x.rational_part[1]) <= 2 ^ s.limits.max_digits
           /\ x.rational_part[2] <= 2 ^ s.limits.max_digits
           /\ x.quadratic_power <= s.limits.max_quadratic_power

\* C10: every value stored in a table satisfies the range bound of its
\* domain.
C10_StoredValuesInRange ==
    \A s \in AllSolvers : \A x \in DOMAIN s.states : WithinRange(s, x)

\* A value above half the range bound is stored in a table of integers.
C10_LargeValueStored ==
    \E s \in AllSolvers :
        /\ s.kind = "i64"
        /\ \E x \in DOMAIN s.states : 2 * x > 2 ^ s.limits.max_digits

\* The depth of a returned solution, 0 for None.
DepthOf(result) == IF result = None THEN 0 ELSE Unwrap(result)[2]

\* What a newly constructed solver of the same type, n and limits returns
\* for the last solve call.
FreshAnswer ==
    solve(new(solver.kind, solver.n, solver.limits), ret.target,
          ret.max_depth).result

\* C6: the depth a reused solver returns for solve(tk, mk) equals the depth
\* a newly constructed solver returns for it.
C6_ReusedAnswersLikeFresh ==
    (solver # None /\ solver.struct = "Solver" /\ ret.called) =>
        DepthOf(ret.result) = DepthOf(FreshAnswer)

\* A second solve call on a solver whose first call left a level early.
C6_ReusedAfterEarlyExit ==
    /\ solver # None
    /\ solver.struct = "Solver"
    /\ count >= 2
    /\ ret.searches > 0
    /\ ret.result # None

\* The binary_operation calls of level d, in the order they were made.
LevelCalls(s, d) == SelectSeq(s.calls, LAMBDA c : c[1] = d)

\* The operand pairs of level d: <<d, d1, i, j>> stands for the pair of
\* by_depth[d1][i] and by_depth[d - d1][j].
LevelPairs(s, d) ==
    UNION {{<<d, d1, i, j>> : i \in 0..(Len(by_depth(s, d1)) - 1),
                              j \in 0..(Len(by_depth(s, d - d1)) - 1)} :
              d1 \in 1..((d + 1) \div 2 - 1)}
    \cup (IF d % 2 = 0
          THEN {c \in {<<d, d \div 2, i, j>> :
                          i \in 0..(Len(by_depth(s, d \div 2)) - 1),
                          j \in 0..(Len(by_depth(s, d \div 2)) - 1)} :
                   c[3] <= c[4]}
          ELSE {})

\* Pair a comes before pair b in the enumeration of a level.
PairBefore(a, b) ==
    \/ a[2] < b[2]
    \/ a[2] = b[2] /\ a[3] < b[3]
    \/ a[2] = b[2] /\ a[3] = b[3] /\ a[4] < b[4]

\* The calls of level d so far are pairs of the level in enumeration order
\* with none repeated, and all of them once the level counts as searched.
ResumedExactly(s, d) ==
    LET calls == LevelCalls(s, d)
    IN  /\ \A k \in 1..(Len(calls) - 1) : PairBefore(calls[k], calls[k + 1])
        /\ \A k \in 1..Len(calls) : calls[k] \in LevelPairs(s, d)
        /\ d <= s.depth_searched =>
              {calls[k] : k \in 1..Len(calls)} = LevelPairs(s, d)

\* C7: over the interrupted and resumed calls of search(d) every pair of
\* the level is passed to binary_operation exactly once, in enumeration
\* order, and depth_searched becomes d only when all pairs were passed.
C7_ResumableExactly ==
    \A s \in AllSolvers :
        \A d \in 1..Len(s.states_by_depth) :
            d < Len(s.states_by_depth) => ResumedExactly(s, d)

\* C7 for the solvers searched by Searcher::search.
C7_SearcherResumableExactly ==
    \A s \in AllSolvers :
        s.struct = "Solver" =>
            \A d \in 1..Len(s.states_by_depth) :
                d < Len(s.states_by_depth) => ResumedExactly(s, d)

\* The solver after one more search of the level it searched last.
SearchedAgain(s) == search(s, s.depth_searched).s

\* The last search(d) of s went through to the end of the level.
SearchCompleted(s) ==
    s.search_state = SearchState_None /\ s.depth_searched >= 1

SameFinalState(s, t) ==
    /\ t.states = s.states
    /\ t.states_by_depth = s.states_by_depth
    /\ t.depth_searched = s.depth_searched
    /\ t.search_state = SearchState_None

\* C8: a second search(d) of Searcher::search right after a completed
\* search(d) leaves the table, by_depth, depth_searched and search_state as
\* the first left them.
C8_SearchIdempotent ==
    (solver # None /\ solver.struct = "Solver" /\ SearchCompleted(solver)) =>
        SameFinalState(solver, SearchedAgain(solver))

\* C8 on the solvers of the integers and of the rationals.
C8_SearchIdempotentWithoutRadicals ==
    (solver # None /\ solver.struct = "Solver" /\ SearchCompleted(solver)
        /\ solver.kind # "RationalQuadratic") =>
        SameFinalState(solver, SearchedAgain(solver))

\* ------------------------------------------------------------------------
\* The value of an expression.
\*
\* Every value of the three domains is a root of a rational: the evaluation
\* works on triples <<r, num, k>> that stand for r^(num / 2^k), r a reduced
\* fraction, and brings them to the form <<q, k>>, the 2^k-th root of q with
\* k as small as possible, when it has to add or to compare.
\* ------------------------------------------------------------------------

Undefined == <<<<0, 0>>, 0>>

IsSquare(r) ==
    /\ r[1] >= 0
    /\ IsSome(try_sqrt(r[1]))
    /\ IsSome(try_sqrt(r[2]))

RECURSIVE Realise(_)
Realise(t) ==
    LET r == t[1]
        num == t[2]
        k == t[3]
    IN  CASE r[2] = 0 -> Undefined
          [] k > 0 /\ r[1] < 0 -> Undefined
          [] k > 0 /\ IsSquare(r) ->
               Realise(<<<<Unwrap(try_sqrt(r[1])), Unwrap(try_sqrt(r[2]))>>,
                         num, k - 1>>)
          [] k > 0 /\ num % 2 = 0 -> Realise(<<r, num \div 2, k - 1>>)
          [] num < 0 /\ r[1] = 0 -> Undefined
          [] num < 0 -> <<RatPow(RatInv(r), -num), k>>
          [] OTHER -> <<RatPow(r, num), k>>

Lazy(v) == <<v[1], 1, v[2]>>

\* a and b as roots of the same order
Raised(a, k) == RatPow(a[1], 2 ^ (k - a[2]))

RootMultiply(a, b) ==
    LET k == Max(a[2], b[2])
    IN  IF a = Undefined \/ b = Undefined
        THEN Undefined
        ELSE Realise(<<RatMul(Raised(a, k), Raised(b, k)), 1, k>>)

RootDivide(a, b) ==
    LET k == Max(a[2], b[2])
    IN  IF a = Undefined \/ b = Undefined \/ b[1][1] = 0
        THEN Undefined
        ELSE Realise(<<RatDiv(Raised(a, k), Raised(b, k)), 1, k>>)

\* a + sign * b: defined when both are rational or a / b is
RootAdd(a, b, sign) ==
    IF a = Undefined \/ b = Undefined
    THEN Undefined
    ELSE IF a[2] = 0 /\ b[2] = 0
    THEN <<RatAdd(a[1], RatMul(<<sign, 1>>, b[1])), 0>>
    ELSE LET t == RootDivide(a, b)
         IN  IF t = Undefined \/ t[2] # 0
             THEN Undefined
             ELSE LET factor == RatAdd(t[1], <<sign, 1>>)
                  IN  IF factor[1] < 0
                      THEN Undefined
                      ELSE RootMultiply(b, <<factor, 0>>)

IsInteger(v) == v # Undefined /\ v[2] = 0 /\ v[1][2] = 1

RECURSIVE Ev(_)
\* The value of e as a triple.
Ev(e) ==
    LET Value(x) == Realise(Ev(x))
    IN  CASE e[1] = "Number" -> <<<<e[2], 1>>, 1, 0>>
          [] e[1] = "Negate" ->
               LET v == Value(e[2])
               IN  IF v = Undefined \/ v[2] # 0
                   THEN Lazy(Undefined)
                   ELSE Lazy(<<RatNeg(v[1]), 0>>)
          [] e[1] = "Add" -> Lazy(RootAdd(Value(e[2]), Value(e[3]), 1))
          [] e[1] = "Subtract" -> Lazy(RootAdd(Value(e[2]), Value(e[3]), -1))
          [] e[1] = "Multiply" -> Lazy(RootMultiply(Value(e[2]), Value(e[3])))
          [] e[1] = "Divide" ->
               IF e[2][1] = "Factorial" /\ e[3][1] = "Factorial"
               THEN LET a == Value(e[2][2])
                        b == Value(e[3][2])
                    IN  IF ~IsInteger(a) \/ ~IsInteger(b)
                        THEN Lazy(Undefined)
                        ELSE IF a[1][1] >= b[1][1]
                        THEN <<<<factorial_divide(a[1][1], b[1][1]), 1>>, 1, 0>>
                        ELSE <<<<1, factorial_divide(b[1][1], a[1][1])>>, 1, 0>>
               ELSE Lazy(RootDivide(Value(e[2]), Value(e[3])))
          [] e[1] = "Power" ->
               LET x == Ev(e[2])
                   y == Value(e[3])
               IN  IF ~IsInteger(y)
                   THEN Lazy(Undefined)
                   ELSE <<x[1], x[2] * y[1][1], x[3]>>
          [] e[1] = "Sqrt" ->
               LET x == Ev(e[2])
               IN  <<x[1], x[2], x[3] + e[3]>>
          [] e[1] = "Factorial" ->
               LET v == Value(e[2])
               IN  IF ~IsInteger(v) \/ v[1][1] < 0
                   THEN Lazy(Undefined)
                   ELSE <<<<factorial(v[1][1]), 1>>, 1, 0>>

\* The value of expression e.
Eval(e) == Realise(Ev(e))

\* The stored number x of a solver of the given kind as a root.
ValueOf(kind, x) ==
    CASE kind = "i64" -> <<<<x, 1>>, 0>>
      [] kind = "Rational" -> <<x, 0>>
      [] kind = "RationalQuadratic" ->
           Realise(<<RatMul(RatPow(x.rational_part, 2 ^ x.quadratic_power),
                            <<PrimeProduct(x.quadratic_part, 1), 1>>),
                     1, x.quadratic_power>>)

\* n written k times
RECURSIVE Repunit(_, _)
Repunit(n, k) == IF k = 0 THEN 0 ELSE 10 * Repunit(n, k - 1) + n

RECURSIVE DigitCount(_, _)
\* The occurrences of n in e, n written k times counting k; a numeral that
\* is not n written some times makes the count negative.
DigitCount(e, n) ==
    CASE e[1] = "Number" ->
           IF \E k \in 1..9 : e[2] = Repunit(n, k)
           THEN CHOOSE k \in 1..9 : e[2] = Repunit(n, k)
           ELSE -100
      [] e[1] \in {"Negate", "Factorial", "Sqrt"} -> DigitCount(e[2], n)
      [] OTHER -> DigitCount(e[2], n) + DigitCount(e[3], n)

EntrySound(s, x) ==
    /\ Eval(s.states[x][1]) = ValueOf(s.kind, x)
    /\ DigitCount(s.states[x][1], s.n) = s.states[x][2]

\* C3: every table entry (v -> (e, d)) has e evaluate to v in the domain of
\* the solver and d equal to the digit count of e.
C3_EntriesSound ==
    \A s \in AllSolvers : \A x \in DOMAIN s.states : EntrySound(s, x)

\* A table of integers holds an entry that came in through the unary
\* detour: a quotient with a difference as its numerator.
C3_DetourEntryStored ==
    \E s \in AllSolvers :
        /\ s.kind = "i64"
        /\ \E x \in DOMAIN s.states :
              /\ s.states[x][1][1] = "Divide"
              /\ s.states[x][1][2][1] = "Subtract"
              /\ s.states[x][2] >= 4

\* ------------------------------------------------------------------------
\* Properties of the operations on values
\* ------------------------------------------------------------------------

\* The request of the given type was applied.
Applied(type) == calc # None /\ calc.type = type /\ calc.out # None

\* What came out of the request: Ok(value) or Panic, and the value.
Outcome == Unwrap(calc.out)

Value == Outcome[2]

\* Operands with numerators and denominators up to 3 in absolute value: no
\* sum or product of the operations below leaves the machine word.
SmallRational(a) == Abs(a[1]) <= 3 /\ a[2] <= 3

\* C19: sub(a, b) is the difference a - b: (a - b) + b = a, a - a = 0 and
\* a - b = a + (-b).
C19_SubIsDifference ==
    (/\ Applied("Rational")
     /\ calc.op = "sub"
     /\ SmallRational(calc.a)
     /\ SmallRational(calc.b))
    => /\ Rational_add(Value, calc.b, calc.build) = Ok(calc.a)
       /\ (calc.a = calc.b => Value = Rational_zero)
       /\ Outcome = Rational_add(calc.a, Rational_neg(calc.b), calc.build)

\* sub(1/2, 1/3) was applied and gave 5/6.
C19_SubGaveSum ==
    /\ Applied("Rational")
    /\ calc.op = "sub"
    /\ calc.a = <<1, 2>>
    /\ calc.b = <<1, 3>>
    /\ Outcome = Ok(<<5, 6>>)

\* The range bound of a rational solver on the machine word, for the
\* positive values its table holds.
WithinRationalRange(a) ==
    /\ 0 < a[1]
    /\ a[1] <= IPow(2, RationalDigits)
    /\ a[2] <= IPow(2, RationalDigits)

\* The range check a rational solver makes before storing
\* (RangeCheck<Rational>::range_check).
PassesRationalRangeCheck(a) ==
    a[1] <= IPow(2, RationalDigits) /\ a[2] <= IPow(2, RationalDigits)

\* The exact sum, product and quotient.
Exact(op, a, b) ==
    CASE op = "add" -> RatAdd(a, b)
      [] op = "mul" -> RatMul(a, b)
      [] op = "div" -> RatDiv(a, b)

\* C11: arithmetic overflow is a rejection, never a stored value: for
\* operands within the range bound an operation of the Rational gives the
\* exact result, or a result the range check rejects, and does not panic.
\* (sub is left to C19.)
C11_OverflowIsRejection ==
    (/\ Applied("Rational")
     /\ calc.op \in {"add", "mul", "div"}
     /\ WithinRationalRange(calc.a)
     /\ WithinRationalRange(calc.b))
    => /\ Outcome # Panic
       /\ \/ Value = Exact(calc.op, calc.a, calc.b)
          \/ ~PassesRationalRangeCheck(Value)

\* An addition of operands within the range bound wrapped around and gave a
\* value that passes the range check: 1/16 + 1/15 gave -31/16.
C11_WrappedSumPassesRangeCheck ==
    /\ Applied("Rational")
    /\ calc.op = "add"
    /\ calc.build = "wrapping"
    /\ calc.a = <<1, 16>>
    /\ calc.b = <<1, 15>>
    /\ Outcome = Ok(<<-31, 16>>)
    /\ PassesRationalRangeCheck(Value)

\* The repunit of a concat request, n written digits times, as a value of
\* the solver's kind.
RepunitOf(c) == from_int(c.kind, ((IPow(10, c.digits) - 1) \div 9) * c.n)

\* The solver concat left holds the repunit.
RepunitInserted == contains_key(Outcome, RepunitOf(calc))

\* The size test of the statement: k * log2(10) - log2(9) <= max_digits.
RepunitSizeTest(c) == IPow(10, c.digits) <= 9 * IPow(2, c.max_digits)

\* C17 as stated: the repunit is inserted at level k if and only if
\* k * log2(10) - log2(9) <= max_digits, for every n in 1..9.
C17_RepunitIffSizeTest ==
    Applied("Concat") => (RepunitInserted <=> RepunitSizeTest(calc))

\* C17: the repunit is inserted at level k if and only if
\* k * log2(10) - log2(9) <= max_digits and the repunit itself is within the
\* range bound 2^max_digits.
C17_RepunitIffSizeTestAndRange ==
    Applied("Concat")
    => (RepunitInserted
        <=> /\ RepunitSizeTest(calc)
            /\ ((IPow(10, calc.digits) - 1) \div 9) * calc.n
                   <= IPow(2, calc.max_digits))

\* concat was applied to a repunit that passes the size test and is beyond
\* the range bound: 33 with max_digits 5.
C17_SizeTestPassedOutOfRange ==
    /\ Applied("Concat")
    /\ calc.n = 3
    /\ calc.digits = 2
    /\ calc.max_digits = 5
    /\ RepunitSizeTest(calc)
    /\ ~RepunitInserted

\* A radical value in canonical form: no quadratic part under the power 0, an
\* odd exponent under a positive power, and every exponent below
\* 2^quadratic_power.
Canonical(x) ==
    /\ x.quadratic_power = 0 => x.quadratic_part = NoQuadraticPart
    /\ x.quadratic_power > 0 => \E i \in 1..4 : x.quadratic_part[i] % 2 = 1
    /\ \A i \in 1..4 : /\ x.quadratic_part[i] >= 0
                       /\ x.quadratic_part[i] < IPow(2, x.quadratic_power)

\* The rational part is in lowest terms with a positive denominator.
Reduced(r) == r[2] > 0 /\ Gcd(Abs(r[1]), r[2]) = 1

\* C18: the radical value that multiply, divide, inverse, power or try_sqrt
\* makes of canonical operands is canonical, and its rational part is in
\* lowest terms.
C18_ResultCanonical ==
    (Applied("Quadratic") /\ IsSome(Outcome))
    => /\ Canonical(Unwrap(Outcome))
       /\ Reduced(Unwrap(Outcome).rational_part)

\* The square root of 2 times the fourth root of 8 (the product 2 times the
\* fourth root of 2) was made: an exponent was carried into the rational
\* part; and the fourth root of 2 times itself: the power was halved.
C18_ProductCarriedOrHalved ==
    /\ Applied("Quadratic")
    /\ calc.op = "multiply"
    /\ \/ /\ calc.x = Quadratic(<<1, 1>>, <<1, 0, 0, 0>>, 1)
          /\ calc.rhs = Quadratic(<<1, 1>>, <<3, 0, 0, 0>>, 2)
          /\ Unwrap(Outcome) = Quadratic(<<2, 1>>, <<1, 0, 0, 0>>, 2)
       \/ /\ calc.x = Quadratic(<<1, 1>>, <<1, 0, 0, 0>>, 2)
          /\ calc.rhs = calc.x
          /\ Unwrap(Outcome) = Quadratic(<<1, 1>>, <<1, 0, 0, 0>>, 1)

\* solve(7, max_depth) was applied to the integer solver of n = 1.
SolvedSevenOfOnes ==
    Applied("Solve") /\ calc.n = 1 /\ calc.target = 7

\* C16: with n = 1 the integer solver returns 7 at depth 7, and fails with
\* max_depth = 6 (and below).
C16_SevenOfOnesAtDepthSeven ==
    SolvedSevenOfOnes
    => IF calc.max_depth >= 7
       THEN IsSome(Outcome) /\ Unwrap(Outcome)[2] = 7
       ELSE Outcome = None

\* C16 (as the solver has it): with n = 1 the integer solver returns 7 at
\* depth 4, and fails with max_depth = 3 (and below).
C16_SevenOfOnesAtDepthFour ==
    SolvedSevenOfOnes
    => IF calc.max_depth >= 4
       THEN IsSome(Outcome) /\ Unwrap(Outcome)[2] = 4
       ELSE Outcome = None

\* solve(7, 6) returned 7 at depth 4.
C16_SevenFoundWithinSix ==
    /\ SolvedSevenOfOnes
    /\ calc.max_depth = 6
    /\ IsSome(Outcome)
    /\ Unwrap(Outcome)[2] = 4

\* The table of solver s is closed under sqrt and factorial: with a stored x
\* of depth d, the root of x, where there is one within the solver's range,
\* is stored with a depth up to d, and so is the factorial of an integer x
\* below max_factorial, where it is within the range.
StoredUpTo(s, x, d) == contains_key(s, x) /\ s.states[x][2] <= d

SqrtClosedAt(s, x) ==
    (/\ x.quadratic_power < s.limits.max_quadratic_power
     /\ IsSome(Quadratic_try_sqrt(x))
     /\ range_check_RationalQuadratic(s, Unwrap(Quadratic_try_sqrt(x))))
    => StoredUpTo(s, Unwrap(Quadratic_try_sqrt(x)), s.states[x][2])

FactorialClosedAt(s, x) ==
    (/\ IsSome(Quadratic_to_int(x))
     /\ Unwrap(Quadratic_to_int(x)) >= 0
     /\ Unwrap(Quadratic_to_int(x)) < s.limits.max_factorial
     /\ range_check_RationalQuadratic(
            s, Quadratic_from_int(factorial(Unwrap(Quadratic_to_int(x))))))
    => StoredUpTo(s, Quadratic_from_int(factorial(Unwrap(Quadratic_to_int(x)))),
                  s.states[x][2])

Closed(s) ==
    \A x \in DOMAIN s.states : SqrtClosedAt(s, x) /\ FactorialClosedAt(s, x)

\* C20: after a gate inserted a value, the target or not, the table is closed
\* under sqrt and factorial.
C20_ClosedAfterInsertion ==
    Applied("Gate") => Closed(Outcome)

\* The same of try_insert alone.
C20_ClosedAfterTryInsert ==
    (Applied("Gate") /\ calc.gate = "try_insert") => Closed(Outcome)

\* check of the older trait inserted the target 3 and neither its root nor
\* its factorial 6.
C20_TargetInsertedWithoutChain ==
    /\ Applied("Gate")
    /\ calc.gate = "check"
    /\ calc.target = 3
    /\ calc.value = 3
    /\ DOMAIN Outcome.states = {Quadratic_from_int(3)}

\* ------------------------------------------------------------------------
\* Properties of the promotions of the ProgressiveSolver
\* ------------------------------------------------------------------------

\* The value x of a solver of kind from as a value of kind to, where there
\* is one.
Embed(from, to, x) ==
    CASE from = "i64" /\ to = "Rational" -> Some(RatFromInt(x))
      [] from = "i64" /\ to = "RationalQuadratic" -> Some(Quadratic_from_int(x))
      [] from = "Rational" /\ to = "i64" -> to_int("Rational", x)
      [] from = "Rational" /\ to = "RationalQuadratic" ->
           Some(Quadratic_from_rational(x))
      [] from = "RationalQuadratic" /\ to = "i64" -> Quadratic_to_int(x)
      [] from = "RationalQuadratic" /\ to = "Rational" ->
           IF Quadratic_is_rational(x) THEN Some(x.rational_part) ELSE None

\* The fields of the three progressive solvers of the driver.
ProgressiveSolvers ==
    {"integral_solver", "rational_solver", "rational_quadratic_solver"}

\* Every value that a and b both hold has in b the entry it has in a.
SameEntries(a, b) ==
    \A x \in DOMAIN a.states :
        (/\ IsSome(Embed(a.kind, b.kind, x))
         /\ contains_key(b, Unwrap(Embed(a.kind, b.kind, x))))
        => b.states[Unwrap(Embed(a.kind, b.kind, x))] = a.states[x]

FactorialsNest ==
    /\ progressive.integral_solver.limits.max_factorial
           >= progressive.rational_solver.limits.max_factorial
    /\ progressive.rational_solver.limits.max_factorial
           >= progressive.rational_quadratic_solver.limits.max_factorial

Offered(a, b) ==
    \A x \in DOMAIN a.states :
        (/\ IsSome(Embed(a.kind, b.kind, x))
         /\ range_check(b, Unwrap(Embed(a.kind, b.kind, x))))
        => contains_key(b, Unwrap(Embed(a.kind, b.kind, x)))

\* The driver completed a level: search ran its stages to the end.
LevelCompleted ==
    /\ progressive # None
    /\ progressive.depth_searched >= 1
    /\ progressive.search_state = "None"

RECURSIVE Rebuild(_)
Rebuild(e) ==
    CASE e[1] = "Number" -> from_number(e[2])
      [] e[1] = "Negate" -> from_negate(Rebuild(e[2]))
      [] e[1] = "Add" -> from_add(Rebuild(e[2]), Rebuild(e[3]))
      [] e[1] = "Subtract" -> from_subtract(Rebuild(e[2]), Rebuild(e[3]))
      [] e[1] = "Multiply" -> from_multiply(Rebuild(e[2]), Rebuild(e[3]))
      [] e[1] = "Divide" -> from_divide(Rebuild(e[2]), Rebuild(e[3]))
      [] e[1] = "Power" -> from_power(Rebuild(e[2]), Rebuild(e[3]))
      [] e[1] = "Sqrt" -> from_sqrt(Rebuild(e[2]), e[3])
      [] e[1] = "Factorial" -> from_factorial(Rebuild(e[2]))

\* Every expression in the table of s is what rebuilding it gives.
StoredCanonical(s) ==
    \A x \in DOMAIN s.states : Rebuild(s.states[x][1]) = s.states[x][1]

\* e holds Add(a, Add(b, c)) or Multiply(a, Multiply(b, c)).
RECURSIVE NestedRight(_)
NestedRight(e) ==
    CASE e[1] = "Number" -> FALSE
      [] e[1] \in {"Negate", "Sqrt", "Factorial"} -> NestedRight(e[2])
      [] OTHER -> \/ e[1] \in {"Add", "Multiply"} /\ e[3][1] = e[1]
                  \/ NestedRight(e[2])
                  \/ NestedRight(e[3])

\* C15: every expression stored in a table is canonical: rebuilding it
\* bottom-up through the smart constructors gives the same expression.
\* Here for the table a search filled up to max_depth.
C15_StoredExpressionsCanonical ==
    Applied("Table") => StoredCanonical(Outcome)

\* A table filled up to level 5 holds an expression with
\* Multiply(a, Multiply(b, c)) or Add(a, Add(b, c)) that rebuilding changes.
C15_NestedRightStored ==
    /\ Applied("Table")
    /\ \E x \in DOMAIN Outcome.states :
           /\ NestedRight(Outcome.states[x][1])
           /\ Rebuild(Outcome.states[x][1]) # Outcome.states[x][1]

\* ------------------------------------------------------------------------
\* Properties of the suppression of the progressive mode
\* ------------------------------------------------------------------------

\* The values of the check calls of a list, those made after a check
\* returned false included.
RECURSIVE CallValues(_)
CallValues(calls) ==
    IF calls = <<>>
    THEN {}
    ELSE {Head(calls).x} \cup CallValues(Head(calls).otherwise)
             \cup CallValues(Tail(calls))

\* x is an operand of the operations that s leaves to a narrower solver in
\* progressive mode: an integer of the Rational solver, a rational of the
\* RationalQuadratic solver.
LeftToNarrower(s, x) ==
    CASE s.kind = "Rational" -> RatIsInteger(x)
      [] s.kind = "RationalQuadratic" -> Quadratic_is_rational(x)
      [] OTHER -> FALSE

\* The values within the range of s that binary_operation on the stored
\* values x and y checks outside progressive mode.
Unsuppressed(s, x, y) ==
    {v \in CallValues(binary_operation_calls(
                          [s EXCEPT !.progressive = FALSE],
                          state_of(s, x, s.states[x][2]),
                          state_of(s, y, s.states[y][2]))) :
        range_check(s, v)}

\* Every value that s checks for the pair x, y outside progressive mode is
\* in the table of s no deeper than the pair.
HeldByDepth(s, x, y) ==
    \A v \in Unsuppressed(s, x, y) :
        /\ contains_key(s, v)
        /\ s.states[v][2] <= s.states[x][2] + s.states[y][2]

\* The pairs of s that the search combined up to a level lose nothing to the
\* suppression.
SuppressionStable(s, level) ==
    \A x \in DOMAIN s.states :
        \A y \in DOMAIN s.states :
            (/\ s.states[x][2] + s.states[y][2] <= level
             /\ LeftToNarrower(s, x)
             /\ LeftToNarrower(s, y))
            => HeldByDepth(s, x, y)

RangesNest ==
    /\ progressive.integral_solver.limits.max_digits
           >= progressive.rational_solver.limits.max_digits
    /\ progressive.rational_solver.limits.max_digits
           >= progressive.rational_quadratic_solver.limits.max_digits

SkippedAndHeld(s, level) ==
    \E x \in DOMAIN s.states :
        \E y \in DOMAIN s.states :
            /\ s.states[x][2] + s.states[y][2] <= level
            /\ LeftToNarrower(s, x)
            /\ LeftToNarrower(s, y)
            /\ \E v \in Unsuppressed(s, x, y) \
                        CallValues(binary_operation_calls(s,
                            state_of(s, x, s.states[x][2]),
                            state_of(s, y, s.states[y][2]))) :
                   /\ contains_key(s, v)
                   /\ s.states[v][2] = s.states[x][2] + s.states[y][2]

TargetDepth(s, x) ==
    IF contains_key(s, from_int(s.kind, x))
    THEN Some(s.states[from_int(s.kind, x)][2])
    ELSE None

\* Some solver table of the driver holds the driver's target at a depth
\* within the driver's max_depth.
TargetHeldBy(s) ==
    /\ IsSome(TargetDepth(s, progressive.target))
    /\ Unwrap(TargetDepth(s, progressive.target))
           <= Unwrap(progressive.max_depth)

TargetHeldWithinMaxDepth ==
    \/ TargetHeldBy(progressive.integral_solver)
    \/ TargetHeldBy(progressive.rational_solver)
    \/ TargetHeldBy(progressive.rational_quadratic_solver)
    \/ TargetHeldBy(progressive.full_integral_solver)

Uninterrupted(s) ==
    solve(new(s.kind, s.n, s.limits),
          from_int(s.kind, BeyondRange(s.limits.max_digits)),
          s.depth_searched).s

\* C22: an early exit loses no value: when the levels of a solver are
\* completed, after any early exits and resumptions, its table is the table
\* of the levels searched without interruption.
C22_EarlyExitLosesNoValue ==
    (solver # None /\ solver.struct = "Solver" /\ SearchCompleted(solver)) =>
        /\ solver.states = Uninterrupted(solver).states
        /\ solver.states_by_depth = Uninterrupted(solver).states_by_depth

\* A solver completed its levels, and its table lacks a value that the
\* levels searched without interruption hold.
C22_ValueLostByEarlyExit ==
    /\ solver # None
    /\ solver.struct = "Solver"
    /\ SearchCompleted(solver)
    /\ count >= 2
    /\ \E x \in DOMAIN Uninterrupted(solver).states : ~contains_key(solver, x)

\* ------------------------------------------------------------------------
\* Properties of the order of the stages and of the phases
\* ------------------------------------------------------------------------

\* The stage the driver moves to from a stage.
NextStage(stage) ==
    CASE stage = "None" -> "Integral"
      [] stage = "Integral" -> "FullIntegral"
      [] stage = "FullIntegral" -> "Rational"
      [] stage = "Rational" -> "RationalQuadratic"
      [] stage = "RationalQuadratic" -> "Finished"
      [] stage = "Finished" -> "None"

\* What holds when the driver enters the stage of the entry e of its
\* history: the solvers of the stages before it have completed the level,
\* those of the stages after it have not, no new number waits to be
\* promoted, and depth_searched is the level only at the end.
StageEntered(e) ==
    LET d == e[2]
    IN  /\ e[7] = 0
        /\ e[3] = IF e[1] = "None" THEN d ELSE d - 1
        /\ e[4] = IF e[1] = "Integral" THEN d - 1 ELSE d
        /\ e[5] = IF e[1] \in {"Integral", "FullIntegral", "Rational"}
                  THEN d - 1 ELSE d
        /\ e[6] = IF e[1] \in {"Finished", "None"} THEN d ELSE d - 1

\* The entry b follows the entry a: the next stage at the same depth, or the
\* integral stage of the next depth.
StageFollows(a, b) ==
    /\ b[1] = NextStage(a[1])
    /\ b[2] = IF b[1] = "Integral" THEN a[2] + 1 ELSE a[2]

StagesInOrder(p) ==
    /\ \A k \in DOMAIN p.stages : StageEntered(p.stages[k])
    /\ \A k \in 1..(Len(p.stages) - 1) :
           StageFollows(p.stages[k], p.stages[k + 1])
    /\ p.stages # <<>> =>
           /\ p.stages[1][1] = "Integral" /\ p.stages[1][2] = 1
           /\ p.search_state = p.stages[Len(p.stages)][1]
    /\ p.stages = <<>> => p.search_state = "None" /\ p.depth_searched = 0

\* C23: at each depth the driver goes through the stages Integral,
\* FullIntegral, Rational, RationalQuadratic in this order, over all the
\* calls of next(): a stage is entered only when the solver of the stage
\* before it has completed the level and its new numbers are promoted and
\* cleared, depth_searched becomes d only after the rational quadratic stage
\* of depth d, and a call after an early exit goes on from the stage recorded
\* at the same depth.
C23_StagesRunInOrder == progressive # None => StagesInOrder(progressive)

\* The look-ahead found the target at level 3, and the next call went on with
\* the rational stage of level 3 and completed the level.
C23_ResumedAfterLookAhead ==
    /\ progressive # None
    /\ Len(nexts) >= 2
    /\ nexts[1] # None
    /\ progressive.depth_searched = 3
    /\ \E k \in DOMAIN progressive.look_aheads :
           /\ progressive.look_aheads[k].digits = 3
           /\ progressive.target
                  \in DOMAIN progressive.look_aheads[k].full_after.states
           /\ progressive.target
                  \notin DOMAIN progressive.look_aheads[k].integral_after.states

\* The phase search moves to from a phase.
NextPhase(phase) ==
    CASE phase = "None" -> "Concat"
      [] phase = "Concat" -> "ExtraState"
      [] phase = "ExtraState" -> "UnaryOperation"
      [] phase = "UnaryOperation" -> "BinaryOperationOfDifferentDepth"
      [] phase = "BinaryOperationOfDifferentDepth" ->
           "BinaryOperationOfSameDepth"
      [] phase = "BinaryOperationOfSameDepth" -> "Finish"
      [] phase = "Finish" -> "None"

\* The entry b follows the entry a: the next phase, with depth_searched one
\* more exactly when the phase is None again.
PhaseFollows(a, b) ==
    /\ b[1] = NextPhase(a[1])
    /\ b[2] = IF b[1] = "None" THEN a[2] + 1 ELSE a[2]

PhasesInOrder(s) ==
    /\ \A k \in 1..(Len(s.phases) - 1) :
           PhaseFollows(s.phases[k], s.phases[k + 1])
    /\ s.phases # <<>> =>
           /\ s.phases[1] = <<"Concat", 0>>
           /\ s.search_state[1] = s.phases[Len(s.phases)][1]
           /\ s.depth_searched = s.phases[Len(s.phases)][2]
    /\ s.phases = <<>> =>
           s.search_state = SearchState_None /\ s.depth_searched = 0

\* C24: search_state of a solver only moves forward through None, Concat,
\* ExtraState, UnaryOperation, BinaryOperationOfDifferentDepth,
\* BinaryOperationOfSameDepth and Finish, over all the calls of solve, and
\* is None again only when depth_searched is set to the level.
C24_PhasesRunInOrder ==
    /\ (solver # None /\ solver.struct = "Solver") => PhasesInOrder(solver)
    /\ progressive # None =>
           /\ PhasesInOrder(progressive.integral_solver)
           /\ PhasesInOrder(progressive.full_integral_solver)
           /\ PhasesInOrder(progressive.rational_solver)
           /\ PhasesInOrder(progressive.rational_quadratic_solver)

\* A solver in a second call of solve that returned from the equal-depth
\* phase of level 2, after all the phases of level 1 and those of level 2
\* before it.
C24_LeftInSameDepthPhase ==
    /\ solver # None
    /\ solver.struct = "Solver"
    /\ count >= 2
    /\ solver.search_state[1] = "BinaryOperationOfSameDepth"
    /\ Len(solver.phases) = 12

\* ------------------------------------------------------------------------
\* Properties of the enumeration of the pairs of a level
\* ------------------------------------------------------------------------

\* The calls of level d are the pairs of the level, each once, in
\* lexicographic order of (d1, i, j): the k-th call is the pair that has
\* k - 1 pairs of the level before it.
EnumeratedInOrder(s, d) ==
    LET calls == LevelCalls(s, d)
        pairs == LevelPairs(s, d)
    IN  /\ Len(calls) = Cardinality(pairs)
        /\ \A k \in 1..Len(calls) :
               /\ calls[k] \in pairs
               /\ Cardinality({b \in pairs : PairBefore(b, calls[k])}) = k - 1

\* Every search of the solver so far ran from the start of its level to the
\* end: the one solve call made on it searched and returned None.
Uninterruptedly(s) ==
    /\ count = 1
    /\ ret.called
    /\ ret.result = None
    /\ s.search_state = SearchState_None

\* C25: a search(d) that is not interrupted passes to binary_operation
\* exactly once every (d1, i, j) with 1 <= d1 < d - d1, i an index of
\* by_depth[d1] and j an index of by_depth[d - d1], and for an even d every
\* (i, j) with i <= j of by_depth[d / 2], in lexicographic order.
C25_EveryPairOnceInOrder ==
    (solver # None /\ solver.struct = "Solver" /\ Uninterruptedly(solver)) =>
        \A d \in 1..solver.depth_searched : EnumeratedInOrder(solver, d)

\* An uninterrupted search of level 4: pairs of the split 1 + 3 and pairs of
\* the equal split 2 + 2 were passed.
C25_UnequalAndEqualSplitsPassed ==
    /\ solver # None
    /\ solver.struct = "Solver"
    /\ Uninterruptedly(solver)
    /\ solver.depth_searched = 4
    /\ \E k \in DOMAIN solver.calls :
           solver.calls[k][1] = 4 /\ solver.calls[k][2] = 1
    /\ \E k \in DOMAIN solver.calls :
           /\ solver.calls[k][1] = 4 /\ solver.calls[k][2] = 2
           /\ solver.calls[k][3] < solver.calls[k][4]

\* ------------------------------------------------------------------------
\* Properties of the full-integer stage
\* ------------------------------------------------------------------------

\* The condition of the claim for the stage to run at the depth of the
\* entry e of the history.
RunsAt(e) == 3 <= e.digits /\ e.digits < Unwrap(e.max_depth)

\* The full integral solver after the stage is a copy of the integral solver
\* that went on searching: not progressive, with every entry of the table
\* of the integral solver as it is there, searched at least to the depth of
\* the integral solver.
CopySearchedOn(e) ==
    /\ ~e.full_after.progressive
    /\ \A x \in DOMAIN e.integral_before.states :
           /\ x \in DOMAIN e.full_after.states
           /\ e.full_after.states[x] = e.integral_before.states[x]
    /\ e.full_after.depth_searched >= e.integral_before.depth_searched

\* C26: the full-integer stage runs at depth d exactly when
\* 3 <= d < max_depth, on a copy of the integral solver that is not
\* progressive; the table, by_depth, depth_searched, search_state and
\* new_numbers of the integral solver are after the stage what they were
\* before it.
C26_LookAheadOnCopy ==
    progressive # None =>
        /\ ~progressive.full_integral_solver.progressive
        /\ progressive.integral_solver.progressive
        /\ \A k \in DOMAIN progressive.look_aheads :
               LET e == progressive.look_aheads[k]
               IN  /\ e.integral_after = e.integral_before
                   /\ RunsAt(e) => CopySearchedOn(e)
                   /\ ~RunsAt(e) => e.full_after = e.full_before

\* The stage ran at depth 3 and its copy searched level 4, and the driver
\* passed the stage at depth 3 of another run, or at a depth below 3,
\* without running it.
C26_LookAheadRan ==
    /\ progressive # None
    /\ \E k \in DOMAIN progressive.look_aheads :
           LET e == progressive.look_aheads[k]
           IN  /\ RunsAt(e)
               /\ e.full_after.depth_searched > e.integral_after.depth_searched
                    \/ e.full_after.search_state # SearchState_None
               /\ e.integral_after.new_numbers = <<>>
               /\ e.integral_after.states # <<>>
    /\ \E k \in DOMAIN progressive.look_aheads :
           ~RunsAt(progressive.look_aheads[k])

\* ------------------------------------------------------------------------
\* Properties of a rejection by the gate
\* ------------------------------------------------------------------------

\* The least integer whose square is beyond the range of the solver.
RootBeyond(s) ==
    CHOOSE r \in 1..(IPow(2, s.limits.max_digits) + 1) :
        /\ r * r > IPow(2, s.limits.max_digits)
        /\ (r - 1) * (r - 1) <= IPow(2, s.limits.max_digits)

\* Values beyond the range of the solver: the integer next to the range and
\* an integer with a root within it, and for a solver of rationals also a
\* denominator next to the range.
BeyondRangeOf(s) ==
    {from_int(s.kind, v) : v \in {BeyondRange(s.limits.max_digits),
                                  RootBeyond(s) * RootBeyond(s)}}
        \cup (IF s.kind = "Rational"
              THEN {<<1, BeyondRange(s.limits.max_digits)>>}
              ELSE {})

\* The call of the gate on the value x at the level the solver searches
\* next.
GateOn(s, x) == try_insert(s, x, s.depth_searched + 1, from_number(s.n))

\* The solver as a solver of the older trait, and the call of its gate.
AsQuadraticSolver(s) == [s EXCEPT !.struct = "QuadraticSolver"]

CheckOn(s, x) ==
    base_check(AsQuadraticSolver(s), x, s.depth_searched + 1, from_number(s.n))

\* C27: try_insert, and check of the older trait, of a value that is out of
\* range or already in the table returns false and leaves the solver as it
\* is: no thunk evaluated, nothing inserted by the call or by a sqrt or
\* factorial after it, the table, by_depth and new_numbers unchanged.
C27_RejectedWithoutEffect ==
    (solver # None /\ solver.struct = "Solver") =>
        \A x \in DOMAIN solver.states \cup BeyondRangeOf(solver) :
            /\ ~gate(solver, x) => GateOn(solver, x) = Result(solver, FALSE)
            /\ (/\ solver.kind = "RationalQuadratic"
                /\ \/ ~QuadraticSolver_range_check(solver, x)
                   \/ QuadraticSolver_already_searched(solver, x))
               => CheckOn(solver, x) = Result(AsQuadraticSolver(solver), FALSE)

\* A solver with a table and a value beyond its range whose root the table
\* lacks and the gate would let in; and a stored integer.
C27_RejectedValueWithOpenRoot ==
    /\ solver # None
    /\ solver.struct = "Solver"
    /\ solver.depth_searched >= 1
    /\ \E x \in BeyondRangeOf(solver) :
           LET calls == sqrt(solver, State(x, 1, from_number(solver.n)))
           IN  /\ ~gate(solver, x)
               /\ calls # <<>>
               /\ gate(solver, calls[1].x)
    /\ \E x \in DOMAIN solver.states : is_int(solver.kind, x)

\* ------------------------------------------------------------------------
\* Properties of the detour of the unary operation
\* ------------------------------------------------------------------------

\* The expression is a product with a single-digit factor, or single-digit
\* itself.
RECURSIVE HasSingleDigitFactor(_)
HasSingleDigitFactor(e) ==
    \/ is_single_digit(e)
    \/ is_multiply(e) /\ (HasSingleDigitFactor(e[2]) \/ HasSingleDigitFactor(e[3]))

\* The expression is a quotient whose denominator, or a factor of it, is
\* single-digit.
QuotientBySingleDigit(e) == is_divide(e) /\ HasSingleDigitFactor(e[3])

\* The values next to a value v of a domain, and the reciprocal.
PlusOne(kind, v) ==
    CASE kind = "i64" -> v + 1
      [] kind = "Rational" -> RatAdd(v, RatFromInt(1))
      [] kind = "RationalQuadratic" -> Quadratic_add_integer(v, 1)

MinusOne(kind, v) ==
    CASE kind = "i64" -> v - 1
      [] kind = "Rational" -> RatSub(v, RatFromInt(1))
      [] kind = "RationalQuadratic" -> Quadratic_subtract_integer(v, 1)

Reciprocal(kind, v) ==
    CASE kind = "Rational" -> RatInv(v)
      [] kind = "RationalQuadratic" -> Quadratic_inverse(v)

GreaterThanOne(kind, v) ==
    CASE kind = "i64" -> v > 1
      [] kind = "Rational" -> v[1] > v[2]
      [] kind = "RationalQuadratic" -> v.rational_part[1] > v.rational_part[2]

\* The values of the claim for v: v + 1, v - 1 when v > 1, and in the
\* domains with fractions their reciprocals.
DetourValues(kind, v) ==
    LET next == {PlusOne(kind, v)}
                    \cup (IF GreaterThanOne(kind, v)
                          THEN {MinusOne(kind, v)} ELSE {})
    IN  IF kind = "i64"
        THEN next
        ELSE next \cup {Reciprocal(kind, w) : w \in next}

\* The values of the last level searched that the claim is about: stored
\* with a quotient by a single digit (in the domain of the radicals, the
\* values without a radical part).
DetourArguments(s) ==
    {v \in {by_depth(s, s.depth_searched)[k] :
                k \in DOMAIN by_depth(s, s.depth_searched)} :
        /\ QuotientBySingleDigit(s.states[v][1])
        /\ s.kind = "RationalQuadratic" => Quadratic_is_rational(v)}

\* The solver after the unary operation of the next level on the value v.
AfterUnaryOperation(s, v) ==
    unary_operation(s, state_of(s, v, s.depth_searched + 1)).s

\* The unary operation on v attempted w: a w within the range is in the
\* table afterwards.
Attempted(s, v, w) ==
    range_check(s, w) => contains_key(AfterUnaryOperation(s, v), w)

\* C28: in every domain the unary operation of level d on a value v of
\* by_depth[d - 1] stored as a quotient by a single digit attempts v + 1,
\* v - 1 when v > 1, and with fractions their reciprocals.
C28_DetourAttemptedInEveryDomain ==
    (solver # None /\ solver.struct = "Solver" /\ SearchCompleted(solver)) =>
        \A v \in DetourArguments(solver) :
            \A w \in DetourValues(solver.kind, v) : Attempted(solver, v, w)

\* The solver of the rationals of n = 2 after level 3: 11 is stored as
\* 22 / 2, 10 is within the range and not in the table, and the unary
\* operation of level 4 on 11 leaves the table without 10.
C28_RationalDetourSkipped ==
    /\ solver # None
    /\ solver.struct = "Solver"
    /\ solver.kind = "Rational"
    /\ solver.n = 2
    /\ SearchCompleted(solver)
    /\ solver.depth_searched = 3
    /\ RatFromInt(11) \in DetourArguments(solver)
    /\ solver.states[RatFromInt(11)][1] = Divide(Number(22), Number(2))
    /\ range_check(solver, RatFromInt(10))
    /\ ~contains_key(AfterUnaryOperation(solver, RatFromInt(11)), RatFromInt(10))

\* ------------------------------------------------------------------------
\* Properties of max_factorial
\* ------------------------------------------------------------------------

\* The factorial of every stored integer from 0 up to bound, where it is
\* within the range, is stored with a depth up to that of the integer.
FactorialsStoredUpTo(s, bound) ==
    \A x \in DOMAIN s.states :
        (/\ is_int(s.kind, x)
         /\ Unwrap(to_int(s.kind, x)) >= 0
         /\ Unwrap(to_int(s.kind, x)) <= bound
         /\ range_check(s, from_int(s.kind, factorial(Unwrap(to_int(s.kind, x))))))
        => StoredUpTo(s, from_int(s.kind, factorial(Unwrap(to_int(s.kind, x)))),
                      s.states[x][2])

\* No call of binary_operation so far was on a pair the factorial quotient
\* is used for with both operands up to max_factorial.
QuotientOnlyBeyond(s) ==
    \A k \in DOMAIN s.calls :
        LET c == s.calls[k]
            x == state_at(s, c[2], c[3], c[2])
            y == state_at(s, c[1] - c[2], c[4], c[1] - c[2])
        IN  (/\ s.kind = "i64"
             /\ x.number <= s.limits.max_factorial
             /\ y.number <= s.limits.max_factorial)
            => /\ factorial_divide_i64(s, x, y) = <<>>
               /\ factorial_divide_i64(s, y, x) = <<>>

CoveredByOneRoute(s) ==
    FactorialsStoredUpTo(s, s.limits.max_factorial) /\ QuotientOnlyBeyond(s)

\* C29: the factorial of every stored integer v <= max_factorial,
\* max_factorial itself included, is attempted by the factorial operation,
\* and the factorial quotient is used only for x > max_factorial.
C29_FactorialUpToMaxFactorial ==
    /\ (solver # None /\ solver.struct = "Solver") => CoveredByOneRoute(solver)
    /\ progressive # None =>
           /\ CoveredByOneRoute(progressive.integral_solver)
           /\ CoveredByOneRoute(progressive.full_integral_solver)
           /\ CoveredByOneRoute(progressive.rational_solver)
           /\ CoveredByOneRoute(progressive.rational_quadratic_solver)

\* The same for the integers below max_factorial.
C29_FactorialBelowMaxFactorial ==
    /\ (solver # None /\ solver.struct = "Solver") =>
           /\ FactorialsStoredUpTo(solver, solver.limits.max_factorial - 1)
           /\ QuotientOnlyBeyond(solver)
    /\ progressive # None =>
           \A f \in ProgressiveSolvers :
               /\ FactorialsStoredUpTo(progressive[f],
                                       progressive[f].limits.max_factorial - 1)
               /\ QuotientOnlyBeyond(progressive[f])

\* The integral solver of a driver of n = 3 with max_factorial 3 has
\* completed level 1: it holds 3 and not 3! = 6, which is within its range.
C29_FactorialOfMaxFactorialMissing ==
    /\ progressive # None
    /\ progressive.integral_solver.n = 3
    /\ progressive.integral_solver.limits.max_factorial = 3
    /\ progressive.integral_solver.depth_searched = 1
    /\ contains_key(progressive.integral_solver, 3)
    /\ range_check(progressive.integral_solver, 6)
    /\ ~contains_key(progressive.integral_solver, 6)

\* ------------------------------------------------------------------------
\* Properties of the sign of the stored values
\* ------------------------------------------------------------------------

\* The value x of a domain is strictly positive: the integer, or the
\* numerator and the denominator of the rational (part).
Positive(kind, x) ==
    CASE kind = "i64" -> x > 0
      [] kind = "Rational" -> x[1] > 0 /\ x[2] > 0
      [] kind = "RationalQuadratic" ->
           x.rational_part[1] > 0 /\ x.rational_part[2] > 0

AllPositive(s) ==
    /\ \A x \in DOMAIN s.states : Positive(s.kind, x)
    /\ \A d \in DOMAIN s.states_by_depth :
           \A k \in DOMAIN s.states_by_depth[d] :
               Positive(s.kind, s.states_by_depth[d][k])

\* The solver a search at the limit of the machine word left.
WordSolver == Outcome[2]

\* The searches that ended without a panic left only positive values.
PositiveAtWordLimit ==
    (Applied("Word") /\ Outcome # Panic) => AllPositive(WordSolver)

\* C30: every value stored in the table of a solver is strictly positive, so
\* no division or modulo by a stored value is one by zero.
C30_StoredValuesPositive ==
    /\ (solver # None /\ solver.struct = "Solver") => AllPositive(solver)
    /\ progressive # None =>
           /\ AllPositive(progressive.integral_solver)
           /\ AllPositive(progressive.full_integral_solver)
           /\ AllPositive(progressive.rational_solver)
           /\ AllPositive(progressive.rational_quadratic_solver)
    /\ Applied("Table") => AllPositive(Outcome)
    /\ PositiveAtWordLimit

\* The values are positive in every solver whose limits keep the results
\* within the machine word.
C30_PositiveWithinWord ==
    /\ (solver # None /\ solver.struct = "Solver") => AllPositive(solver)
    /\ progressive # None =>
           /\ AllPositive(progressive.integral_solver)
           /\ AllPositive(progressive.full_integral_solver)
           /\ AllPositive(progressive.rational_solver)
           /\ AllPositive(progressive.rational_quadratic_solver)
    /\ Applied("Table") => AllPositive(Outcome)

\* Solver<Rational> with n = 3 and max_digits half the word, searched to
\* level 4 in the build without overflow checks: 12 = 3! + 3! is in range,
\* the product 12 * 12 of the same-depth pair wrapped around, and a value
\* that is not positive passed the range check and is stored at level 4.
C30_WrappedProductStored ==
    /\ Applied("Word")
    /\ calc.build = "wrapping"
    /\ calc.n = 3
    /\ Outcome # Panic
    /\ WordSolver.depth_searched = 4
    /\ contains_key(WordSolver, RatFromInt(12))
    /\ WordSolver.states[RatFromInt(12)][2] = 2
    /\ \E x \in DOMAIN WordSolver.states :
           /\ x[1] <= 0
           /\ WordSolver.states[x][2] = 4
           /\ WordSolver.states[x][1][1] = "Multiply"

\* The same search in the build with overflow checks panicked.
C30_ProductPanicked ==
    /\ Applied("Word")
    /\ calc.build = "checked"
    /\ calc.max_depth = 4
    /\ Outcome = Panic

\* A solver of the integers that passed pairs with the smaller operand first
\* and pairs of equal operands to binary_operation, and holds 1 = n / n and
\* a value stored as a difference.
C30_DifferencesStored ==
    /\ solver # None
    /\ solver.struct = "Solver"
    /\ solver.kind = "i64"
    /\ solver.depth_searched >= 3
    /\ contains_key(solver, 1)
    /\ \E k \in DOMAIN solver.calls :
           LET c == solver.calls[k]
           IN  by_depth(solver, c[2])[c[3] + 1]
                   < by_depth(solver, c[1] - c[2])[c[4] + 1]
    /\ \E x \in DOMAIN solver.states : solver.states[x][1][1] = "Subtract"

====
